---- MODULE Spec2Model ----
(***************************************************************************)
(* The Shapes layer of napari (napari/layers/_shapes_layer/model.py).      *)
(*                                                                         *)
(* The layer object is the record `layer`; its fields carry the names of   *)
(* the attributes of the Python object.  The fields id, vertices,          *)
(* _mesh_faces_index, _mesh_triangles and selected_box belong to the       *)
(* ShapesData object the layer owns (self.data).  Python indices are       *)
(* 0-based: the element with Python index i of an array is element i+1 of  *)
(* the sequence that models it.  None is -1 where the code holds an index  *)
(* and <<>> where it holds a point or an array.  `call` is the last call   *)
(* made on the layer with its arguments, `button` is the state of the      *)
(* mouse button of the canvas that delivers the pointer events, `held` is  *)
(* the set of the keys that are down, each with the mode the layer was in  *)
(* when the key went down.                                                 *)
(***************************************************************************)
EXTENDS Integers, Sequences, FiniteSets, TLC

VARIABLES layer, call, button, held

vars == <<layer, call, button, held>>

(***************************************************************************)
(* Bounds of the model.                                                    *)
(***************************************************************************)
MaxShapes == 2

(***************************************************************************)
(* numpy and Python helpers                                                *)
(***************************************************************************)
None == -1
NoneArr == <<>>
NoExc == "none"

At(a, i) == a[i + 1]

Range(a) == {a[k] : k \in DOMAIN a}

arange(lo, hi) == [k \in 1..(IF hi > lo THEN hi - lo ELSE 0) |-> lo + k - 1]

ones(n, v) == [k \in 1..n |-> v]

RECURSIVE concatenate(_)
concatenate(parts) ==
    IF parts = <<>> THEN <<>> ELSE Head(parts) \o concatenate(Tail(parts))

\* a[mask] for a boolean mask of the same length
RECURSIVE compress(_, _)
compress(a, mask) ==
    IF a = <<>> THEN <<>>
    ELSE IF Head(mask) THEN <<Head(a)>> \o compress(Tail(a), Tail(mask))
         ELSE compress(Tail(a), Tail(mask))

\* np.delete(a, i, axis=0)
np_delete(a, i) == [k \in 1..(Len(a) - 1) |-> IF k <= i THEN a[k] ELSE a[k + 1]]

\* np.sort of a sequence of integers
RECURSIVE np_sort(_)
np_sort(a) ==
    IF a = <<>> THEN <<>>
    ELSE LET m == CHOOSE k \in DOMAIN a : \A j \in DOMAIN a : a[k] <= a[j]
         IN <<a[m]>> \o np_sort(np_delete(a, m - 1))

reversed(a) == [k \in 1..Len(a) |-> a[Len(a) + 1 - k]]

\* np.unique(a): the sorted distinct values
RECURSIVE sorted_set(_)
sorted_set(S) ==
    IF S = {} THEN <<>>
    ELSE LET m == CHOOSE x \in S : \A y \in S : x <= y
         IN <<m>> \o sorted_set(S \ {m})

np_unique(a) == sorted_set(Range(a))

\* np.unique(a, return_index=True)[1]: first position (0-based) of each value
unique_index(a) ==
    LET u == np_unique(a)
    IN [r \in 1..Len(u) |->
          (CHOOSE k \in DOMAIN a : a[k] = u[r] /\ \A j \in 1..(k - 1) : a[j] # u[r]) - 1]

\* np.unique(a, return_counts=True)[1]
unique_counts(a) ==
    LET u == np_unique(a)
    IN [r \in 1..Len(u) |-> Cardinality({k \in DOMAIN a : a[k] = u[r]})]

\* list.index
list_index(a, v) == (CHOOSE k \in DOMAIN a : a[k] = v /\ \A j \in 1..(k - 1) : a[j] # v) - 1

\* list.remove: drops the first occurrence
list_remove(a, v) == np_delete(a, list_index(a, v))

Raise(s, e) == [s EXCEPT !.exc = e]

(***************************************************************************)
(* ShapesData (napari/layers/_shapes_layer/utils.py is not part of the     *)
(* sources: these definitions follow the specification, sections 3, 4.1    *)
(* and 4.2).  A face of the mesh is one row of _mesh_faces_index,          *)
(* <<shape, group, role>> with role 0 = fill and 1 = border, and the row   *)
(* of _mesh_triangles with the same number, which holds the three corner   *)
(* points _mesh_vertices[_mesh_faces[row]] of the face.                    *)
(***************************************************************************)
Objects == <<"line", "rectangle", "ellipse", "path", "polygon">>

objects_index(kind) == CHOOSE k \in DOMAIN Objects : Objects[k] = kind

count(s) == Len(s.id)

object_type_of(s, index) == Objects[At(s.id, index)]

Min2(a, b) == IF a <= b THEN a ELSE b
Max2(a, b) == IF a >= b THEN a ELSE b

\* the four corners tl, tr, br, bl of the box spanned by two points
expand_box_corners(box) ==
    LET x0 == Min2(box[1][1], box[2][1])
        x1 == Max2(box[1][1], box[2][1])
        y0 == Min2(box[1][2], box[2][2])
        y1 == Max2(box[1][2], box[2][2])
    IN << <<x0, y0>>, <<x1, y0>>, <<x1, y1>>, <<x0, y1>> >>

Mid(p, q) == <<(p[1] + q[1]) \div 2, (p[2] + q[2]) \div 2>>

\* corners and edge midpoints: tl, top, tr, right, br, bottom, bl, left
_expand_box(box) ==
    LET c == expand_box_corners(box)
    IN <<c[1], Mid(c[1], c[2]), c[2], Mid(c[2], c[3]),
         c[3], Mid(c[3], c[4]), c[4], Mid(c[4], c[1])>>

\* fill of a polygon: a fan of triangles from its first vertex
fill_triangles(v) ==
    [k \in 1..(IF Len(v) >= 3 THEN Len(v) - 2 ELSE 0) |-> <<v[1], v[k + 1], v[k + 2]>>]

\* border: one quad (two triangles) per segment of the polyline
border_triangles(v, closed) ==
    LET nseg == IF closed THEN Len(v) ELSE Len(v) - 1
        a(g) == v[g]
        b(g) == v[(g % Len(v)) + 1]
    IN [j \in 1..(2 * nseg) |->
          LET g == (j + 1) \div 2
          IN IF j % 2 = 1 THEN <<a(g), a(g), b(g)>> ELSE <<a(g), b(g), b(g)>>]

\* the outline that is triangulated for a shape of a kind
outline(kind, v) ==
    IF kind = "rectangle" THEN expand_box_corners(v)
    ELSE IF kind = "ellipse"
         THEN LET e == _expand_box(v) IN <<e[2], e[4], e[6], e[8]>>
         ELSE v

\* the faces <<role, triangle>> of one shape, fill first
triangulate(kind, v) ==
    LET o == outline(kind, v)
        fill == IF kind \in {"line", "path"} THEN <<>> ELSE fill_triangles(o)
        border == border_triangles(o, kind \notin {"line", "path"})
    IN [k \in 1..Len(fill) |-> <<0, fill[k]>>] \o [k \in 1..Len(border) |-> <<1, border[k]>>]

\* appends the mesh of a shape with tag index to the mesh buffers
data_add_mesh(s, kind, v, index) ==
    LET f == triangulate(kind, v)
    IN [s EXCEPT !._mesh_faces_index = @ \o [k \in 1..Len(f) |-> <<index, 0, f[k][1]>>],
                 !._mesh_triangles = @ \o [k \in 1..Len(f) |-> f[k][2]]]

\* ShapesData.add_shapes: every new shape gets the next index
RECURSIVE data_add_shapes(_, _)
data_add_shapes(s, new) ==
    IF new = <<>> THEN s
    ELSE LET n == Head(new)
             s1 == [s EXCEPT !.id = Append(@, objects_index(n.kind)),
                             !.vertices = Append(@, n.vertices)]
         IN data_add_shapes(data_add_mesh(s1, n.kind, n.vertices, count(s)), Tail(new))

\* ShapesData.remove_one_shape: drops the faces tagged index; with renumber
\* drops the shape and shifts the tags of the later shapes down by one
data_remove_one_shape(s, index, renumber) ==
    LET keep == [k \in DOMAIN s._mesh_faces_index |-> s._mesh_faces_index[k][1] # index]
        mfi == compress(s._mesh_faces_index, keep)
        s1 == [s EXCEPT !._mesh_faces_index = mfi,
                        !._mesh_triangles = compress(@, keep)]
    IN IF renumber
       THEN [s1 EXCEPT !._mesh_faces_index =
                           [k \in DOMAIN mfi |->
                              IF mfi[k][1] > index
                              THEN <<mfi[k][1] - 1, mfi[k][2], mfi[k][3]>> ELSE mfi[k]],
                       !.id = np_delete(@, index),
                       !.vertices = np_delete(@, index)]
       ELSE s1

data_remove_all_shapes(s) ==
    [s EXCEPT !.id = <<>>, !.vertices = <<>>,
              !._mesh_faces_index = <<>>, !._mesh_triangles = <<>>]

\* ShapesData._add_polygon / _add_path with index: the shape keeps its index
data_add_at(s, kind, v, index) ==
    data_add_mesh([s EXCEPT !.vertices[index + 1] = v], kind, v, index)

\* ShapesData._select_meshes: mask of the faces of the shapes in index with
\* the role object_type (None: both roles); index is the list of the shapes
_select_meshes(s, index, object_type) ==
    [k \in DOMAIN s._mesh_faces_index |->
        /\ s._mesh_faces_index[k][1] \in Range(index)
        /\ (object_type = None \/ s._mesh_faces_index[k][3] = object_type)]

\* util.is_permutation
is_permutation(z, n) == Len(z) = n /\ Range(z) = 0..(n - 1)

faces_column0(s) == [k \in DOMAIN s._mesh_faces_index |-> s._mesh_faces_index[k][1]]

\* ShapesData.select_box: the ten handle points of the union bounding box of
\* the shapes in index (corners and edge midpoints 0..7, centre 8, rotation
\* handle 9); None for an empty index
rotation_handle_length == 20

select_box(s, index) ==
    IF index = <<>> THEN [s EXCEPT !.selected_box = NoneArr]
    ELSE LET pts == UNION {Range(At(s.vertices, i)) : i \in Range(index)}
             x0 == CHOOSE x \in {p[1] : p \in pts} : \A p \in pts : x <= p[1]
             x1 == CHOOSE x \in {p[1] : p \in pts} : \A p \in pts : x >= p[1]
             y0 == CHOOSE y \in {p[2] : p \in pts} : \A p \in pts : y <= p[2]
             y1 == CHOOSE y \in {p[2] : p \in pts} : \A p \in pts : y >= p[2]
             b == _expand_box(<< <<x0, y0>>, <<x1, y1>> >>)
         IN [s EXCEPT !.selected_box =
                 b \o << Mid(b[1], b[5]), <<b[2][1], b[2][2] - rotation_handle_length>> >>]

(***************************************************************************)
(* Shapes: display state                                                   *)
(***************************************************************************)
Modes == {"select", "direct", "pan/zoom", "add_rectangle"}

\* a[idx] for a list idx of integer positions
fancy_ok(a, idx) == \A k \in DOMAIN idx : idx[k] >= 0 /\ idx[k] < Len(a)
fancy(a, idx) == [k \in DOMAIN idx |-> At(a, idx[k])]

\* Shapes._set_view_slice: the faces (rows of the mesh buffers) and their
\* colors handed to the mesh visual
_set_view_slice(s) ==
    IF ~fancy_ok(s._show_meshes, s._z_order_faces)
       \/ ~fancy_ok(s._mesh_faces_index, s._z_order_faces)
       \/ ~fancy_ok(s._mesh_color_array, s._z_order_faces)
    THEN Raise(s, "IndexError")
    ELSE LET show_faces == fancy(s._show_meshes, s._z_order_faces)
             faces == compress(s._z_order_faces, show_faces)
             colors == compress(fancy(s._mesh_color_array, s._z_order_faces), show_faces)
         IN IF Len(faces) = 0
            THEN [s EXCEPT !.node_faces = <<>>, !.node_colors = <<>>]
            ELSE [s EXCEPT !.node_faces = faces, !.node_colors = colors]

\* Layer.refresh -> Shapes._refresh -> _update
refresh(s) == _set_view_slice(s)

\* (variant: the new order is stored before it is validated)
z_order_setter_store_first(s, z_order) ==
    IF ~is_permutation(z_order, count(s))
    THEN Raise([s EXCEPT !._z_order = z_order, !._z_order_faces = <<>>], "ValueError")
    ELSE refresh([s EXCEPT !._z_order = z_order])

\* Shapes.z_order setter
z_order_setter(s, z_order) ==
    IF ~is_permutation(z_order, count(s)) THEN Raise(s, "ValueError")
    ELSE LET s1 == [s EXCEPT !._z_order = z_order]
             idx == unique_index(faces_column0(s))
         IN IF Len(z_order) = 0
            THEN refresh([s1 EXCEPT !._z_order_faces = <<>>])
            ELSE IF \E k \in DOMAIN z_order :
                       z_order[k] >= Len(idx) \/ z_order[k] >= Len(s._face_counts)
                 THEN Raise(s1, "IndexError")
                 ELSE refresh([s1 EXCEPT !._z_order_faces =
                         concatenate([k \in DOMAIN z_order |->
                             arange(At(idx, z_order[k]),
                                    At(idx, z_order[k]) + At(s._face_counts, z_order[k]))])])

\* Shapes._unselect
_unselect(s) ==
    IF s._highlight
    THEN [s EXCEPT !._highlight = FALSE, !._selected_shapes_stored = <<>>,
                   !._hover_shapes_stored = <<None, None>>]
    ELSE s

\* (variant: every change of mode empties the selection)
mode_setter_stored_clear(s1, mode, old_mode) ==
    refresh(_unselect(select_box([s1 EXCEPT !._selected_shapes = <<>>], <<>>)))

\* Shapes.mode setter, lines 224-233: s1 is the layer with the new mode stored
mode_setter_stored(s1, mode, old_mode) ==
    IF mode = "direct" /\ old_mode = "select" THEN refresh(select_box(s1, <<>>))
    ELSE IF mode = "select" /\ old_mode = "direct"
         THEN refresh(select_box(s1, s1._selected_shapes))
         ELSE refresh(_unselect(select_box([s1 EXCEPT !._selected_shapes = <<>>], <<>>)))

\* (variant: the attributes of the mode are assigned before the mode is looked up)
mode_setter_store_first(s, mode) ==
    IF mode = s._mode THEN s
    ELSE IF mode \notin Modes
         THEN Raise([s EXCEPT !._mode = mode, !.status = <<mode, None, None>>], "ValueError")
         ELSE refresh(select_box([s EXCEPT !._mode = mode, !._selected_shapes = <<>>], <<>>))

\* Shapes.mode setter
mode_setter(s, mode) ==
    IF mode = s._mode THEN s
    ELSE IF mode \notin Modes THEN Raise(s, "ValueError")
    ELSE mode_setter_stored(
           [s EXCEPT !.cursor = IF mode \in {"select", "direct"} THEN "pointing"
                                ELSE IF mode = "pan/zoom" THEN "standard"
                                ELSE "cross",
                     !.interactive = (mode = "pan/zoom"),
                     !.status = <<mode, None, None>>,
                     !._mode = mode,
                     !.emitted = Append(@, mode)],
           mode, s._mode)

\* (variant: the new shapes are put behind the existing ones)
add_shapes_arrays_behind(s, s1, num_faces, num_added, nshow) ==
    IF nshow < 0 THEN Raise(s1, "ValueError")
    ELSE z_order_setter(
           [s1 EXCEPT !._show_meshes = @ \o ones(nshow, TRUE),
                      !.show_objects = @ \o ones(num_added, <<TRUE, TRUE>>),
                      !._edge_color_array = @ \o ones(num_added, s.edge_color),
                      !._face_color_array = @ \o ones(num_added, s.face_color),
                      !._mesh_color_array = @ \o
                          [k \in 1..(Len(s1._mesh_faces_index) - num_faces) |->
                              IF s1._mesh_faces_index[num_faces + k][3] = 0
                              THEN s.face_color ELSE s.edge_color],
                      !._face_counts = unique_counts(faces_column0(s1))],
           s._z_order \o arange(count(s), count(s1)))

\* Shapes.add_shapes, lines 270-287: s1 is the layer after data.add_shapes
add_shapes_arrays(s, s1, num_faces, num_added, nshow) ==
    IF nshow < 0 THEN Raise(s1, "ValueError")
    ELSE z_order_setter(
           [s1 EXCEPT !._show_meshes = @ \o ones(nshow, TRUE),
                      !.show_objects = @ \o ones(num_added, <<TRUE, TRUE>>),
                      !._edge_color_array = @ \o ones(num_added, s.edge_color),
                      !._face_color_array = @ \o ones(num_added, s.face_color),
                      !._mesh_color_array = @ \o
                          [k \in 1..(Len(s1._mesh_faces_index) - num_faces) |->
                              IF s1._mesh_faces_index[num_faces + k][3] = 0
                              THEN s.face_color ELSE s.edge_color],
                      !._face_counts = unique_counts(faces_column0(s1))],
           arange(count(s), count(s1)) \o s._z_order)

add_shapes_added(s, s1) ==
    add_shapes_arrays(s, s1, Len(s._mesh_faces_index), count(s1) - count(s),
                      Len(s1._mesh_faces_index) - Len(s._show_meshes))

\* Shapes.add_shapes; new lists the shapes in the order ShapesData adds them
add_shapes(s, new) == add_shapes_added(s, data_add_shapes(s, new))

\* (variant: the mesh tags of the later shapes are never shifted down)
_remove_one_shape_no_shift(s, index, renumber) ==
    LET faces_indices == faces_column0(s)
        keep == [k \in DOMAIN faces_indices |-> faces_indices[k] # index]
        s1 == data_remove_one_shape(s, index, FALSE)
        z1 == SelectSeq(s._z_order, LAMBDA z : z # index)
    IN [s1 EXCEPT !.id = IF renumber THEN np_delete(@, index) ELSE @,
                  !.vertices = IF renumber THEN np_delete(@, index) ELSE @,
                  !._z_order = IF renumber
                               THEN [k \in DOMAIN z1 |->
                                       IF z1[k] > index THEN z1[k] - 1 ELSE z1[k]]
                               ELSE @,
                  !._face_counts = IF renumber THEN np_delete(@, index) ELSE @,
                  !._face_color_array = IF renumber THEN np_delete(@, index) ELSE @,
                  !._edge_color_array = IF renumber THEN np_delete(@, index) ELSE @,
                  !.show_objects = IF renumber THEN np_delete(@, index) ELSE @,
                  !._show_meshes = compress(@, keep),
                  !._mesh_color_array = compress(@, keep)]

\* Shapes._remove_one_shape
_remove_one_shape(s, index, renumber) ==
    LET faces_indices == faces_column0(s)
        keep == [k \in DOMAIN faces_indices |-> faces_indices[k] # index]
        s1 == data_remove_one_shape(s, index, renumber)
        z1 == SelectSeq(s._z_order, LAMBDA z : z # index)
        s2 == IF renumber
              THEN [s1 EXCEPT !._z_order = [k \in DOMAIN z1 |->
                                              IF z1[k] > index THEN z1[k] - 1 ELSE z1[k]],
                              !._face_counts = np_delete(@, index),
                              !._face_color_array = np_delete(@, index),
                              !._edge_color_array = np_delete(@, index),
                              !.show_objects = np_delete(@, index)]
              ELSE s1
    IN IF Len(s._show_meshes) # Len(keep) THEN Raise(s2, "IndexError")
       ELSE IF Len(s._mesh_color_array) # Len(keep)
            THEN Raise([s2 EXCEPT !._show_meshes = compress(@, keep)], "IndexError")
            ELSE [s2 EXCEPT !._show_meshes = compress(@, keep),
                            !._mesh_color_array = compress(@, keep)]

RECURSIVE remove_each(_, _)
remove_each(s, idx) ==
    IF idx = <<>> \/ s.exc # NoExc THEN s
    ELSE remove_each(_remove_one_shape(s, Head(idx), TRUE), Tail(idx))

\* index == True in Python: True itself and the integer 1
eq_True(index) == index.type = "bool" \/ (index.type = "int" /\ index.val = 1)

\* self.z_order = self._z_order, reached unless an exception propagates
reassign_z_order(s) == IF s.exc # NoExc THEN s ELSE z_order_setter(s, s._z_order)

\* (variant: the selection survives the removal)
remove_shapes_selection_kept(s, index) ==
    IF eq_True(index)
    THEN [z_order_setter([data_remove_all_shapes(s) EXCEPT
                             !._show_meshes = <<>>, !._mesh_color_array = <<>>,
                             !._face_color_array = <<>>, !._edge_color_array = <<>>,
                             !._face_counts = <<>>], <<>>)
          EXCEPT !.show_objects = <<>>]
    ELSE IF index.type = "list"
         THEN reassign_z_order(remove_each(s, reversed(np_sort(index.val))))
         ELSE reassign_z_order(_remove_one_shape(s, index.val, TRUE))

\* Shapes.remove_shapes; index is True, a list of integers or an integer
remove_shapes(s, index) ==
    LET s0 == [s EXCEPT !._selected_shapes = <<>>]
    IN IF eq_True(index)
       THEN LET s1 == [data_remove_all_shapes(s0) EXCEPT
                          !._show_meshes = <<>>, !._mesh_color_array = <<>>,
                          !._face_color_array = <<>>, !._edge_color_array = <<>>,
                          !._face_counts = <<>>]
                s2 == z_order_setter(s1, <<>>)
            IN IF s2.exc # NoExc THEN s2 ELSE [s2 EXCEPT !.show_objects = <<>>]
       ELSE IF index.type = "list"
            THEN reassign_z_order(remove_each(s0, reversed(np_sort(index.val))))
            ELSE reassign_z_order(_remove_one_shape(s0, index.val, TRUE))

\* `x is False` for an element x of a numpy boolean array: a numpy.bool_
\* object is never the Python singleton False
is_False(x) == FALSE

\* (variant: the face count of the edited shape is left as it was)
edit_shape_arrays_count_kept(s2, index, rows) ==
    z_order_setter(
      [s2 EXCEPT !._show_meshes = @ \o [k \in 1..Len(rows) |-> TRUE],
                 !._mesh_color_array = @ \o
                     [k \in 1..Len(rows) |->
                        IF s2._mesh_faces_index[Len(s2._mesh_faces_index) - Len(rows) + k][3] = 0
                        THEN At(s2._face_color_array, index)
                        ELSE At(s2._edge_color_array, index)]],
      s2._z_order)

\* Shapes.edit_shape, lines 378-392: s2 is the layer after the new mesh of
\* the shape was appended, rows are the rows of the mesh tagged index
edit_shape_arrays(s2, index, rows) ==
    z_order_setter(
      [s2 EXCEPT !._face_counts[index + 1] = Len(rows),
                 !._show_meshes = @ \o
                     [k \in 1..Len(rows) |->
                        ~ \/ (is_False(At(s2.show_objects, index)[1]) /\ rows[k][3] = 0)
                          \/ (is_False(At(s2.show_objects, index)[2]) /\ rows[k][3] = 1)],
                 !._mesh_color_array = @ \o
                     [k \in 1..Len(rows) |->
                        IF s2._mesh_faces_index[Len(s2._mesh_faces_index) - Len(rows) + k][3] = 0
                        THEN At(s2._face_color_array, index)
                        ELSE At(s2._edge_color_array, index)]],
      s2._z_order)

edit_shape_added(s2, index) ==
    edit_shape_arrays(s2, index, SelectSeq(s2._mesh_faces_index, LAMBDA r : r[1] = index))

\* (variant: a rectangle keeps its id when it is edited)
edit_shape_removed_keep_id(s1, index, vertices, object_type) ==
    IF s1.exc # NoExc THEN s1
    ELSE edit_shape_added(data_add_at(s1, "polygon", vertices, index), index)

\* Shapes.edit_shape, lines 362-376: s1 is the layer after _remove_one_shape
edit_shape_removed(s1, index, vertices, object_type) ==
    IF s1.exc # NoExc THEN s1
    ELSE edit_shape_added(
           data_add_at(
             IF object_type = "rectangle"
             THEN [s1 EXCEPT !.id[index + 1] = objects_index("polygon")] ELSE s1,
             IF object_type \in {"line", "rectangle"} THEN "polygon" ELSE object_type,
             vertices, index),
           index)

\* (variant: an ellipse is edited like the other kinds)
edit_shape_any_kind(s, index, vertices) ==
    edit_shape_removed(_remove_one_shape(s, index, FALSE), index, vertices,
                       object_type_of(s, index))

\* Shapes.edit_shape
edit_shape(s, index, vertices) ==
    IF object_type_of(s, index) = "ellipse" THEN s
    ELSE edit_shape_removed(_remove_one_shape(s, index, FALSE), index, vertices,
                            object_type_of(s, index))

\* (variant: the second assignment of the swap is missing)
_move_one_forward_half_swap(z, index) ==
    LET ind == list_index(z, index)
    IN IF ind # 0 THEN [z EXCEPT ![ind + 1] = z[ind]] ELSE z

\* Shapes._move_one_forward and its siblings, on the list _z_order
_move_one_forward(z, index) ==
    LET ind == list_index(z, index)
    IN IF ind # 0 THEN [z EXCEPT ![ind + 1] = z[ind], ![ind] = index] ELSE z

_move_one_backward(z, index) ==
    LET ind == list_index(z, index)
    IN IF ind # Len(z) - 1 THEN [z EXCEPT ![ind + 1] = z[ind + 2], ![ind + 2] = index] ELSE z

_move_one_to_front(z, index) == <<index>> \o SelectSeq(z, LAMBDA x : x # index)

_move_one_to_back(z, index) == SelectSeq(z, LAMBDA x : x # index) \o <<index>>

move_one(z, index, which) ==
    IF which = "forward" THEN _move_one_forward(z, index)
    ELSE IF which = "backward" THEN _move_one_backward(z, index)
    ELSE IF which = "to_front" THEN _move_one_to_front(z, index)
    ELSE _move_one_to_back(z, index)

RECURSIVE move_each(_, _, _)
move_each(z, ids, which) ==
    IF ids = <<>> THEN z ELSE move_each(move_one(z, Head(ids), which), Tail(ids), which)

\* the shapes of the list index in the order of their positions in z_order
by_position(z_order, index) ==
    LET indices == [k \in DOMAIN index |-> list_index(z_order, index[k])]
    IN [k \in DOMAIN index |-> At(z_order, np_sort(indices)[k])]

\* Shapes.move_forward; index is a list of integers or an integer
move_forward(s, index) ==
    LET z == IF index.type = "list"
             THEN move_each(s._z_order, by_position(s._z_order, index.val), "forward")
             ELSE _move_one_forward(s._z_order, index.val)
    IN z_order_setter([s EXCEPT !._z_order = z], z)

move_backward(s, index) ==
    LET z == IF index.type = "list"
             THEN move_each(s._z_order, reversed(by_position(s._z_order, index.val)),
                            "backward")
             ELSE _move_one_backward(s._z_order, index.val)
    IN z_order_setter([s EXCEPT !._z_order = z], z)

move_to_front(s, index) ==
    LET z == IF index.type = "list"
             THEN move_each(s._z_order, reversed(by_position(s._z_order, index.val)),
                            "to_front")
             ELSE _move_one_to_front(s._z_order, index.val)
    IN z_order_setter([s EXCEPT !._z_order = z], z)

move_to_back(s, index) ==
    LET z == IF index.type = "list"
             THEN move_each(s._z_order, by_position(s._z_order, index.val), "to_back")
             ELSE _move_one_to_back(s._z_order, index.val)
    IN z_order_setter([s EXCEPT !._z_order = z], z)

\* the shapes an index argument (True or an integer) names
index_list(s, index) == IF index.type = "bool" THEN arange(0, count(s)) ELSE <<index.val>>

\* the body shared by hide_shapes (value FALSE) and show_shapes (value TRUE)
set_shown(s, index, object_type, value) ==
    LET indices == _select_meshes(s, index_list(s, index), object_type)
        rows == Range(index_list(s, index))
    IN IF Len(indices) # Len(s._show_meshes) THEN Raise(s, "IndexError")
       ELSE refresh(
              [s EXCEPT !._show_meshes = [k \in DOMAIN @ |-> IF indices[k] THEN value ELSE @[k]],
                        !.show_objects = [i \in DOMAIN @ |->
                            IF (i - 1) \in rows
                            THEN <<IF object_type \in {None, 0} THEN value ELSE @[i][1],
                                   IF object_type \in {None, 1} THEN value ELSE @[i][2]>>
                            ELSE @[i]]])

\* Shapes.hide_shapes
hide_shapes(s, index, object_type) == set_shown(s, index, object_type, FALSE)

\* Shapes.show_shapes
show_shapes(s, index, object_type) == set_shown(s, index, object_type, TRUE)

(***************************************************************************)
(* Shapes: hit tests.  A hit test returns [exc, value]: the exception it  *)
(* raised ("none" if it returned) and the list [shape, vertex] or list of  *)
(* shapes it returned.                                                     *)
(***************************************************************************)
Ret(v) == [exc |-> NoExc, value |-> v]
RetRaise(e) == [exc |-> e, value |-> <<None, None>>]

Sub(p, q) == <<p[1] - q[1], p[2] - q[2]>>
Add(p, q) == <<p[1] + q[1], p[2] + q[2]>>
abs(x) == IF x < 0 THEN -x ELSE x

\* util.inside_triangles for one triangle <<A, B, C>> given relative to the
\* query point: the same-side test on the signs of the three edge functions
edge_sign(d, p) == -d[1] * p[2] + d[2] * p[1] >= 0

inside_triangle(t) ==
    LET s_AB == edge_sign(Sub(t[2], t[1]), t[1])
        s_AC == edge_sign(Sub(t[3], t[1]), t[1])
        s_BC == edge_sign(Sub(t[3], t[2]), t[2])
    IN s_AB # s_AC /\ s_AB = s_BC

\* util.inside_triangles
inside_triangles(triangles) == [k \in DOMAIN triangles |-> inside_triangle(triangles[k])]

\* triangles - indices[:2]
triangles_minus(triangles, coord) ==
    [k \in DOMAIN triangles |->
        <<Sub(triangles[k][1], coord), Sub(triangles[k][2], coord), Sub(triangles[k][3], coord)>>]

\* np.all(abs(p - coord) <= self._vertex_size/2) for one point p
within_vertex_size(s, p, coord) ==
    /\ 2 * abs(p[1] - coord[1]) <= s._vertex_size
    /\ 2 * abs(p[2] - coord[2]) <= s._vertex_size

\* inds of lines 634-635: the box points that are handles
handle_inds == <<0, 1, 2, 3, 4, 5, 6, 7, 9>>

\* the lowest matching handle only
box_matches_first(s, coord) ==
    LET all == {k \in 0..(Len(handle_inds) - 1) :
                   within_vertex_size(s, At(s.selected_box, At(handle_inds, k)), coord)}
    IN {k \in all : \A j \in all : k <= j}

\* matches of line 643: positions in handle_inds of the handles at coord
box_matches(s, coord) ==
    {k \in 0..(Len(handle_inds) - 1) :
        within_vertex_size(s, At(s.selected_box, At(handle_inds, k)), coord)}

\* data.vertices[inds] of lines 648-649: <<shape, number of the vertex in
\* the shape>> for the vertices of the selected shapes, in storage order
selected_vertices(s) ==
    concatenate([i \in 1..count(s) |->
        IF (i - 1) \in Range(s._selected_shapes)
        THEN [v \in 1..Len(s.vertices[i]) |-> <<i - 1, v - 1>>]
        ELSE <<>>])

\* matches of line 656
vertex_matches(s, coord) ==
    SelectSeq(selected_vertices(s),
              LAMBDA e : within_vertex_size(s, At(At(s.vertices, e[1]), e[2]), coord))

\* the triangles of the faces marked shown (lines 664 and 678)
shown_triangles(s) == compress(s._mesh_triangles, s._show_meshes)

\* lines 669-672: the shape of indices that comes first in z_order
first_in_z_order(z, indices) ==
    CHOOSE m \in Range(indices) :
        \A n \in Range(indices) : list_index(z, m) <= list_index(z, n)

\* Shapes._shape_at, lines 663-674.  The mask computed from the shown faces
\* indexes all rows of _mesh_faces_index: numpy raises IndexError when the
\* two lengths differ
_shape_at_mesh(s, coord) ==
    LET inside == inside_triangles(triangles_minus(shown_triangles(s), coord))
    IN IF Len(s._show_meshes) # Len(s._mesh_triangles) THEN RetRaise("IndexError")
       ELSE IF Len(inside) # Len(s._mesh_faces_index) THEN RetRaise("IndexError")
       ELSE IF \E k \in DOMAIN inside : inside[k]
            THEN Ret(<<first_in_z_order(s._z_order, compress(faces_column0(s), inside)),
                       None>>)
            ELSE Ret(<<None, None>>)

\* Shapes._shape_at
_shape_at(s, coord) ==
    IF Len(s._selected_shapes) > 0 /\ s._mode = "select"
    THEN IF s.selected_box = NoneArr THEN RetRaise("TypeError")
         ELSE IF box_matches(s, coord) # {}
              THEN Ret(<<s._selected_shapes[1],
                         CHOOSE k \in box_matches(s, coord) :
                             \A j \in box_matches(s, coord) : j <= k>>)
              ELSE _shape_at_mesh(s, coord)
    ELSE IF Len(s._selected_shapes) > 0 /\ s._mode = "direct"
            /\ vertex_matches(s, coord) # <<>>
         THEN Ret(vertex_matches(s, coord)[Len(vertex_matches(s, coord))])
         ELSE _shape_at_mesh(s, coord)

\* line 683 for one triangle t and the corners lo, hi of the box: corner i
\* counts as inside when box[1] >= t[0] and t[i] >= box[0]
points_inside(t, lo, hi) ==
    \E i \in 1..3 :
        /\ hi[1] >= t[1][1] /\ hi[2] >= t[1][2]
        /\ t[i][1] >= lo[1] /\ t[i][2] >= lo[2]

\* Shapes._shapes_in_box
_shapes_in_box(s, box) ==
    IF box = NoneArr THEN RetRaise("TypeError")
    ELSE LET b == _expand_box(box)
             triangles == shown_triangles(s)
             inside == [k \in DOMAIN triangles |-> points_inside(triangles[k], b[1], b[5])]
         IN IF Len(s._show_meshes) # Len(s._mesh_triangles) THEN RetRaise("IndexError")
            ELSE IF Len(inside) # Len(s._mesh_faces_index) THEN RetRaise("IndexError")
            ELSE Ret(np_unique(compress(faces_column0(s), inside)))

(***************************************************************************)
(* Shapes: pointer events                                                  *)
(***************************************************************************)
\* ShapesData.shift_shapes: the vertices and the mesh of the shapes in index
\* and the cached box move by shift
data_shift_shapes(s, shift, index) ==
    [s EXCEPT !.vertices = [i \in DOMAIN @ |->
                  IF (i - 1) \in Range(index)
                  THEN [v \in DOMAIN @[i] |-> Add(@[i][v], shift)] ELSE @[i]],
              !._mesh_triangles = [k \in DOMAIN @ |->
                  IF s._mesh_faces_index[k][1] \in Range(index)
                  THEN <<Add(@[k][1], shift), Add(@[k][2], shift), Add(@[k][3], shift)>>
                  ELSE @[k]],
              !.selected_box = IF @ = NoneArr THEN @
                               ELSE [k \in DOMAIN @ |-> Add(@[k], shift)]]

\* Shapes.shift_shapes
shift_shapes(s, shift, index) == refresh(data_shift_shapes(s, shift, index))

\* Shapes.get_message: the value part of the status message (the coordinate
\* part is the coordinate of the event); the vertex is named only when the
\* shape is
get_message(value) == <<"coord", value[1], IF value[1] = None THEN None ELSE value[2]>>

\* Shapes._select
_select(s) ==
    IF s._selected_shapes = s._selected_shapes_stored
       /\ s._hover_shapes = s._hover_shapes_stored
    THEN s
    ELSE [s EXCEPT !._highlight = TRUE,
                   !._selected_shapes_stored = s._selected_shapes,
                   !._hover_shapes_stored = s._hover_shapes]

\* Shapes._move, lines 835-842: the whole selection follows the pointer
_move_translate(s, coord) ==
    IF s.selected_box = NoneArr THEN Raise(s, "TypeError")
    ELSE shift_shapes(
           [s EXCEPT !._drag_start = IF @ = NoneArr THEN Sub(coord, At(s.selected_box, 9))
                                     ELSE @],
           Sub(Sub(coord, At(s.selected_box, 9)),
               IF s._drag_start = NoneArr THEN Sub(coord, At(s.selected_box, 9))
               ELSE s._drag_start),
           s._selected_shapes)

\* a quotient of two integers <<n, d>>, the value numpy computes in floating
\* point; d = 0 stands for the inf or nan of a division by zero
quot(n, d) == IF d < 0 THEN <<0 - n, 0 - d>> ELSE <<n, d>>

rat_gt(a, b) ==
    IF a[2] = 0 THEN a[1] # 0
    ELSE IF b[2] = 0 THEN FALSE
    ELSE IF (a[2] > 0) = (b[2] > 0) THEN a[1] * b[2] > b[1] * a[2]
    ELSE a[1] * b[2] < b[1] * a[2]

\* _move, lines 849-852 (first move of the drag) and on_key_press lines
\* 1168-1170 (with the absolute value): the ratio of the extents of the box
box_aspect(box, first) ==
    IF first
    THEN IF box[5][1] = box[1][1] \/ box[5][2] = box[1][2] THEN <<1, 1>>
         ELSE <<box[5][2] - box[1][2], box[5][1] - box[1][1]>>
    ELSE <<abs(box[5][2] - box[1][2]), abs(box[5][1] - box[1][1])>>

\* (variant: the anchor is the dragged handle itself)
resize_fix_same(s, vertex) ==
    IF s._fixed_vertex = NoneArr
    THEN [s EXCEPT !._fixed_index = vertex,
                   !._fixed_vertex = At(s.selected_box, vertex),
                   !._aspect_ratio = box_aspect(s.selected_box, TRUE)]
    ELSE s

\* _move, lines 846-852: the anchor is chosen when the drag has none yet
resize_fix(s, vertex) ==
    IF s._fixed_vertex = NoneArr
    THEN [s EXCEPT !._fixed_index = (vertex + 4) % 8,
                   !._fixed_vertex = At(s.selected_box, (vertex + 4) % 8),
                   !._aspect_ratio = box_aspect(s.selected_box, TRUE)]
    ELSE s

\* _move, lines 861-868: new - fixed for a corner with the aspect ratio
\* held, per axis as a quotient; dx and dy are the components of
\* coord - fixed, a the aspect ratio
resize_aspect_delta(dx, dy, a) ==
    IF dx = 0 /\ dy = 0 THEN << <<0, 0>>, <<0, 1>> >>
    ELSE IF rat_gt(<<abs(dy), abs(dx)>>, a)
         THEN << <<dx, 1>>, <<dy * a[1] * abs(dx), a[2] * abs(dy)>> >>
         ELSE << <<dx * abs(dy) * a[2], abs(dx) * a[1]>>, <<dy, 1>> >>

\* _move, lines 859-883: the scale of the move on both axes as quotients;
\* the box is upright, so that offset is (0, -1), offset_perp is (-1, 0) and
\* dist_perp and dist are the quotients of new - fixed by size on axis 0
\* and on axis 1
resize_scale_of(fi, delta, size) ==
    IF fi % 2 = 0
    THEN <<quot(delta[1][1], delta[1][2] * size[1]), quot(delta[2][1], delta[2][2] * size[2])>>
    ELSE IF fi % 4 = 1
         THEN << <<1, 1>>, quot(delta[2][1], delta[2][2] * size[2])>>
         ELSE <<quot(delta[1][1], delta[1][2] * size[1]), <<1, 1>> >>

\* _move, line 886: scale[scale==0]=1
scale_nonzero(scale) ==
    [k \in DOMAIN scale |-> IF scale[k][1] = 0 /\ scale[k][2] # 0 THEN <<1, 1>> ELSE scale[k]]

\* _move, lines 854-886: the scale of a move to coord
resize_scale(s, coord) ==
    scale_nonzero(
      resize_scale_of(
        s._fixed_index,
        IF s._fixed_index % 2 = 0 /\ s._fixed_aspect
        THEN resize_aspect_delta(coord[1] - s._fixed_vertex[1], coord[2] - s._fixed_vertex[2],
                                 s._aspect_ratio)
        ELSE << <<coord[1] - s._fixed_vertex[1], 1>>, <<coord[2] - s._fixed_vertex[2], 1>> >>,
        Sub(At(s.selected_box, (s._fixed_index + 4) % 8), At(s.selected_box, s._fixed_index))))

\* the image of point p under the scaling about center
scale_point(p, scale, center) ==
    <<center[1] + ((p[1] - center[1]) * scale[1][1]) \div scale[1][2],
      center[2] + ((p[2] - center[2]) * scale[2][1]) \div scale[2][2]>>

\* the ten handle points of the box with handle 0 at p and handle 4 at q, the
\* rotation handle on the side of the top edge that is away from the centre
box_between(p, q) ==
    <<p, Mid(p, <<q[1], p[2]>>), <<q[1], p[2]>>, Mid(<<q[1], p[2]>>, q),
      q, Mid(q, <<p[1], q[2]>>), <<p[1], q[2]>>, Mid(<<p[1], q[2]>>, p),
      Mid(p, q),
      <<Mid(p, <<q[1], p[2]>>)[1],
        IF p[2] <= q[2] THEN p[2] - rotation_handle_length
        ELSE p[2] + rotation_handle_length>> >>

\* the scaling maps every vertex of the shapes in index to whole coordinates
scale_exact(s, scale, center, index) ==
    /\ scale[1][2] # 0 /\ scale[2][2] # 0
    /\ \A i \in Range(index) : \A v \in Range(At(s.vertices, i)) :
         /\ ((v[1] - center[1]) * scale[1][1]) % scale[1][2] = 0
         /\ ((v[2] - center[2]) * scale[2][1]) % scale[2][2] = 0

\* ShapesData.scale_shapes: the vertices and the mesh of the shapes in index
\* and the corners of the cached box are scaled about center; scaled records
\* the arguments of the call.  Coordinates are whole numbers in the model: a
\* scaling that yields others (nan for a denominator 0) is reported as the
\* exception NotWhole, and the pointer actions do not take it
NotWhole == "not whole"

data_scale_shapes(s, scale, center, index) ==
    IF ~scale_exact(s, scale, center, index)
    THEN Raise([s EXCEPT !.scaled = <<center, scale>>], NotWhole)
    ELSE [s EXCEPT !.vertices = [i \in DOMAIN @ |->
                       IF (i - 1) \in Range(index)
                       THEN [v \in DOMAIN @[i] |-> scale_point(@[i][v], scale, center)]
                       ELSE @[i]],
                   !._mesh_triangles = [k \in DOMAIN @ |->
                       IF s._mesh_faces_index[k][1] \in Range(index)
                       THEN <<scale_point(@[k][1], scale, center),
                              scale_point(@[k][2], scale, center),
                              scale_point(@[k][3], scale, center)>>
                       ELSE @[k]],
                   !.selected_box = box_between(scale_point(@[1], scale, center),
                                                scale_point(@[5], scale, center)),
                   !.scaled = <<center, scale>>]

\* _move, lines 854-900: s is the layer with the anchor chosen
_move_resize(s, coord) ==
    refresh(data_scale_shapes(s, resize_scale(s, coord), s._fixed_vertex, s._selected_shapes))

\* _move, lines 901-922: the rotation handle is dragged.  The centre of the
\* rotation (line 905) is stored; the rotation of the shapes by ShapesData
\* is not part of the model; the angle the rotation starts from (line 907)
\* is 0 for the upright box and is kept as <<0>>
_move_rotate(s) ==
    IF s._drag_start = NoneArr
    THEN [s EXCEPT !._fixed_vertex = At(s.selected_box, 8), !._drag_start = <<0>>]
    ELSE s

\* Shapes._move, lines 843-922: a handle of the box is dragged
_move_handle(s, coord, vertex) ==
    IF s.selected_box = NoneArr THEN Raise(s, "TypeError")
    ELSE IF vertex < 8 THEN _move_resize(resize_fix(s, vertex), coord)
    ELSE _move_rotate(s)

\* Shapes._move, lines 923-928 and 937-942: the marquee grows
_move_box(s, coord) ==
    [s EXCEPT !._is_selecting = TRUE,
              !._drag_start = IF @ = NoneArr THEN coord ELSE @,
              !._drag_box = <<IF s._drag_start = NoneArr THEN coord ELSE s._drag_start, coord>>]

\* Shapes._move, lines 931-936: a vertex of a shape is dragged
_move_vertex(s, coord, index, vertex) ==
    IF vertex >= Len(At(s.vertices, index)) THEN Raise(s, "IndexError")
    ELSE edit_shape(s, index, [At(s.vertices, index) EXCEPT ![vertex + 1] = coord])

\* Shapes._move
_move(s, coord) ==
    IF s._mode \in {"select", "add_rectangle"}
    THEN IF Len(s._selected_shapes) > 0
         THEN IF s._selected_vertex[2] = None
              THEN _move_translate([s EXCEPT !._is_moving = TRUE], coord)
              ELSE _move_handle([s EXCEPT !._is_moving = TRUE], coord, s._selected_vertex[2])
         ELSE _move_box(s, coord)
    ELSE IF s._mode = "direct"
         THEN IF Len(s._selected_shapes) > 0
              THEN IF s._selected_vertex[2] # None
                   THEN _move_vertex([s EXCEPT !._is_moving = TRUE], coord,
                                     s._selected_vertex[1], s._selected_vertex[2])
                   ELSE s
              ELSE _move_box(s, coord)
         ELSE s

\* self.status = self.get_message(coord, shape), unless an exception propagates
set_status(s, value) == IF s.exc # NoExc THEN s ELSE [s EXCEPT !.status = get_message(value)]

\* shape = self._hover_shapes; self.status = self.get_message(coord, shape)
status_of_hover(s) == set_status(s, s._hover_shapes)

\* on_mouse_move, lines 979-981: the hover test, r is the result of _shape_at
hover_hit(s, r) ==
    IF r.exc # NoExc THEN Raise(s, r.exc)
    ELSE set_status(_select([s EXCEPT !._hover_shapes = r.value]), r.value)

\* on_mouse_move, lines 997 and 1017: the hit test for the status message
status_hit(s, r) == IF r.exc # NoExc THEN Raise(s, r.exc) ELSE set_status(s, r.value)

\* np.all(self._create_coord != coord)
all_differ(a, b) == a = NoneArr \/ (a[1] # b[1] /\ a[2] # b[2])

\* on_mouse_move, lines 1006-1010: s2 is the layer with the new rectangle
\* selected and its box cached
create_selected(s2, coord) ==
    IF coord \notin Range(s2.selected_box) THEN Raise(s2, "IndexError")
    ELSE _select(
           [s2 EXCEPT !._selected_vertex =
                          <<s2._selected_shapes[1], list_index(s2.selected_box, coord)>>,
                      !._hover_shapes =
                          <<s2._selected_shapes[1], list_index(s2.selected_box, coord)>>,
                      !._creating = TRUE])

\* on_mouse_move, lines 1003-1005: s1 is the layer after add_shapes
create_added(s1, coord) ==
    IF s1.exc # NoExc THEN s1
    ELSE create_selected(
           select_box([s1 EXCEPT !._ready_to_create = FALSE,
                                 !._selected_shapes = <<count(s1) - 1>>],
                      <<count(s1) - 1>>),
           coord)

\* on_mouse_move, lines 1012-1017: s1 is the layer after the creation step
create_drag(s1, coord, is_dragging) ==
    IF s1.exc # NoExc THEN s1
    ELSE IF s1._creating /\ is_dragging
         THEN status_of_hover(_move(s1, coord))
         ELSE status_hit(s1, _shape_at(s1, coord))

\* Shapes.on_mouse_move with event.pos = coord
on_mouse_move(s, coord, is_dragging) ==
    IF s._mode \in {"select", "direct"}
    THEN IF is_dragging
         THEN status_of_hover(_move([s EXCEPT !._mouse_coord = coord], coord))
         ELSE IF s._is_moving \/ s._is_selecting
              THEN status_of_hover([s EXCEPT !._mouse_coord = coord])
              ELSE hover_hit([s EXCEPT !._mouse_coord = coord],
                             _shape_at([s EXCEPT !._mouse_coord = coord], coord))
    ELSE IF s._mode = "pan/zoom"
         THEN status_hit([s EXCEPT !._mouse_coord = coord],
                         _shape_at([s EXCEPT !._mouse_coord = coord], coord))
    ELSE IF s._mode = "add_rectangle"
         THEN create_drag(
                IF s._ready_to_create /\ all_differ(s._create_coord, coord)
                THEN create_added(
                       add_shapes([s EXCEPT !._mouse_coord = coord],
                                  <<[kind |-> "rectangle",
                                     vertices |-> <<s._create_coord, coord>>]>>),
                       coord)
                ELSE [s EXCEPT !._mouse_coord = coord],
                coord, is_dragging)
    ELSE Raise([s EXCEPT !._mouse_coord = coord], "ValueError")

\* (variant: a press with Shift replaces the selection like a plain press)
press_selection_no_toggle(selected, shape, shift) ==
    IF shape # None
    THEN IF shape \notin Range(selected) THEN <<shape>> ELSE selected
    ELSE <<>>

\* lines 1036-1049 and 1057-1066: the selection after a press on shape
press_selection(selected, shape, shift) ==
    IF shift /\ shape # None
    THEN IF shape \in Range(selected) THEN list_remove(selected, shape)
         ELSE Append(selected, shape)
    ELSE IF shape # None
         THEN IF shape \notin Range(selected) THEN <<shape>> ELSE selected
         ELSE <<>>

\* on_mouse_press, lines 1034-1051 and 1055-1068: r is the result of _shape_at.
\* In select mode select_box is called in every branch that assigns or
\* mutates the selection
on_mouse_press_hit(s, r, shift) ==
    IF r.exc # NoExc THEN Raise(s, r.exc)
    ELSE IF r.value[2] # None
         THEN set_status(_select([s EXCEPT !._selected_vertex = r.value]), r.value)
    ELSE IF s._mode = "select"
            /\ (r.value[1] = None \/ shift \/ r.value[1] \notin Range(s._selected_shapes))
         THEN set_status(
                _select(select_box(
                  [s EXCEPT !._selected_vertex = r.value,
                            !._selected_shapes = press_selection(@, r.value[1], shift)],
                  press_selection(s._selected_shapes, r.value[1], shift))),
                r.value)
         ELSE set_status(
                _select([s EXCEPT !._selected_vertex = r.value,
                                  !._selected_shapes = press_selection(@, r.value[1], shift)]),
                r.value)

\* (variant: a press in pan/zoom mode selects like a press in select mode)
on_mouse_press_any_mode(s, coord, shift) ==
    IF s._mode \in {"select", "direct", "pan/zoom"}
    THEN on_mouse_press_hit([s EXCEPT !._mouse_coord = coord],
                            _shape_at([s EXCEPT !._mouse_coord = coord], coord), shift)
    ELSE [s EXCEPT !._mouse_coord = coord, !._ready_to_create = TRUE,
                   !._create_coord = coord]

\* Shapes.on_mouse_press with event.pos = coord
on_mouse_press(s, coord, shift) ==
    IF s._mode \in {"select", "direct"}
    THEN IF ~s._is_moving /\ ~s._is_selecting
         THEN on_mouse_press_hit([s EXCEPT !._mouse_coord = coord],
                                 _shape_at([s EXCEPT !._mouse_coord = coord], coord), shift)
         ELSE [s EXCEPT !._mouse_coord = coord]
    ELSE IF s._mode = "pan/zoom" THEN [s EXCEPT !._mouse_coord = coord]
    ELSE IF s._mode = "add_rectangle"
         THEN [s EXCEPT !._mouse_coord = coord, !._ready_to_create = TRUE,
                        !._create_coord = coord]
    ELSE Raise([s EXCEPT !._mouse_coord = coord], "ValueError")

\* on_mouse_release, lines 1101-1108: the drag state is reset
release_reset(s, shape) ==
    set_status(
      _select([s EXCEPT !._is_moving = FALSE, !._drag_start = NoneArr,
                        !._drag_box = NoneArr, !._fixed_vertex = NoneArr,
                        !._selected_vertex = <<None, None>>, !._hover_shapes = shape]),
      shape)

\* on_mouse_release, lines 1097-1100: b is the result of _shapes_in_box
release_box(s, b, shape) ==
    IF b.exc # NoExc THEN Raise(s, b.exc)
    ELSE release_reset(
           select_box([s EXCEPT !._selected_shapes = b.value, !._is_selecting = FALSE],
                      b.value),
           shape)

\* (variant: a release always keeps the selection of the press)
on_mouse_release_hit_keep(s, r, shift) ==
    IF r.exc # NoExc THEN Raise(s, r.exc)
    ELSE IF s._is_selecting THEN release_box(s, _shapes_in_box(s, s._drag_box), r.value)
    ELSE release_reset(s, r.value)

\* on_mouse_release, lines 1088-1108: r is the result of _shape_at
on_mouse_release_hit(s, r, shift) ==
    IF r.exc # NoExc THEN Raise(s, r.exc)
    ELSE IF ~s._is_moving /\ ~s._is_selecting /\ ~shift
         THEN release_reset(
                select_box([s EXCEPT !._selected_shapes =
                                IF r.value[1] # None THEN <<r.value[1]>> ELSE <<>>],
                           IF r.value[1] # None THEN <<r.value[1]>> ELSE <<>>),
                r.value)
    ELSE IF s._is_selecting THEN release_box(s, _shapes_in_box(s, s._drag_box), r.value)
    ELSE release_reset(s, r.value)

\* on_mouse_release, lines 1136-1147: the state the add_rectangle branch leaves
release_create(s) ==
    _unselect(select_box(
      [s EXCEPT !._ready_to_create = FALSE, !._create_coord = NoneArr,
                !._is_moving = FALSE, !._selected_shapes = <<>>,
                !._drag_start = NoneArr, !._drag_box = NoneArr,
                !._fixed_vertex = NoneArr, !._selected_vertex = <<None, None>>,
                !._hover_shapes = <<None, None>>, !._creating = FALSE],
      <<>>))

\* Shapes.on_mouse_release with event.pos = coord
on_mouse_release(s, coord, shift) ==
    IF s._mode \in {"select", "direct"}
    THEN on_mouse_release_hit([s EXCEPT !._mouse_coord = coord],
                              _shape_at([s EXCEPT !._mouse_coord = coord], coord), shift)
    ELSE IF s._mode = "pan/zoom" THEN [s EXCEPT !._mouse_coord = coord]
    ELSE IF s._mode = "add_rectangle"
         THEN status_hit(release_create([s EXCEPT !._mouse_coord = coord]),
                         _shape_at(release_create([s EXCEPT !._mouse_coord = coord]), coord))
    ELSE Raise([s EXCEPT !._mouse_coord = coord], "ValueError")

\* on_key_press / on_key_release, lines 1166-1171 and 1188-1193: Shift sets
\* the fixed-aspect flag and, while shapes are moving, takes the aspect
\* ratio of the box and repeats the move at the last mouse position
key_shift(s, fixed) ==
    IF s._is_moving
    THEN _move([s EXCEPT !._fixed_aspect = fixed,
                         !._aspect_ratio = IF s.selected_box = NoneArr THEN @
                                           ELSE box_aspect(s.selected_box, FALSE)],
               s._mouse_coord)
    ELSE [s EXCEPT !._fixed_aspect = fixed]

\* on_key_press, lines 1172-1179: the mode of a letter key
key_mode(key) ==
    IF key = "r" THEN "add_rectangle"
    ELSE IF key = "d" THEN "direct"
    ELSE IF key = "s" THEN "select"
    ELSE "pan/zoom"

\* Shapes.on_key_press with event.key = key, event.native.isAutoRepeat() =
\* auto_repeat
on_key_press(s, key, auto_repeat) ==
    IF auto_repeat THEN s
    ELSE IF key = "Shift" THEN key_shift(s, TRUE)
    ELSE IF key \in {" ", "r", "d", "s", "z"}
         THEN mode_setter(
                IF key = " " THEN [s EXCEPT !._mode_history = s._mode] ELSE s,
                IF key = " " THEN "pan/zoom" ELSE key_mode(key))
    ELSE s

\* Shapes.on_key_release with event.key = key
on_key_release(s, key) ==
    IF key = " "
    THEN IF s._mode_history # "pan/zoom" THEN mode_setter(s, s._mode_history) ELSE s
    ELSE IF key = "Shift" THEN key_shift(s, FALSE)
    ELSE s

(***************************************************************************)
(* Shapes.__init__ with no shapes                                          *)
(***************************************************************************)
NonePair == <<None, None>>

InitLayer ==
    [id |-> <<>>, vertices |-> <<>>, _mesh_faces_index |-> <<>>, _mesh_triangles |-> <<>>,
     selected_box |-> NoneArr,
     edge_color |-> "black", face_color |-> "white",
     _mesh_color_array |-> <<>>, _edge_color_array |-> <<>>, _face_color_array |-> <<>>,
     _show_meshes |-> <<>>, show_objects |-> <<>>, _face_counts |-> <<>>,
     _z_order |-> <<>>, _z_order_faces |-> <<>>,
     _vertex_size |-> 10,
     _highlight |-> TRUE,
     _selected_shapes |-> <<>>, _selected_shapes_stored |-> <<>>,
     _hover_shapes |-> NonePair, _hover_shapes_stored |-> NonePair,
     _mouse_coord |-> <<0, 0>>, status |-> <<"pan/zoom", None, None>>,
     _drag_start |-> NoneArr, _fixed_vertex |-> NoneArr, _fixed_aspect |-> FALSE,
     _selected_vertex |-> NonePair, _is_moving |-> FALSE, _fixed_index |-> 0,
     _aspect_ratio |-> <<1, 1>>, scaled |-> NoneArr,
     _is_selecting |-> FALSE, _drag_box |-> NoneArr,
     _ready_to_create |-> FALSE, _creating |-> FALSE, _create_coord |-> NoneArr,
     _mode |-> "pan/zoom", _mode_history |-> "pan/zoom",
     cursor |-> "standard", interactive |-> TRUE,
     node_faces |-> <<>>, node_colors |-> <<>>,
     emitted |-> <<>>, exc |-> NoExc]

\* the state a call starts from: nothing raised, nothing emitted yet
Begin(s) == [s EXCEPT !.exc = NoExc, !.emitted = <<>>, !.scaled = NoneArr]

(***************************************************************************)
(* Inputs of the calls                                                     *)
(***************************************************************************)
PyTrue == [type |-> "bool", val |-> 1]
PyInt(i) == [type |-> "int", val |-> i]
PyList(l) == [type |-> "list", val |-> l]

RectA == << <<0, 0>>, <<40, 40>> >>
RectB == << <<20, 20>>, <<80, 80>> >>
LineC == << <<100, 0>>, <<140, 40>> >>
PathD == << <<100, 60>>, <<140, 60>>, <<140, 100>> >>
TriangleE == << <<0, 60>>, <<40, 60>>, <<0, 100>> >>

NewShape(kind, v) == [kind |-> kind, vertices |-> v]

ApiShapes == {NewShape("rectangle", RectA), NewShape("ellipse", RectB)}

\* the shapes of one add_shapes call (one, or two of different kinds in the
\* order of the kinds)
NewShapes(cat, room) ==
    {<<a>> : a \in {x \in cat : room >= 1}}
    \cup {<<p[1], p[2]>> : p \in {q \in cat \X cat :
                 room >= 2 /\ objects_index(q[1].kind) < objects_index(q[2].kind)}}

EditVertices == {TriangleE}

ShapeIndices == 0..(MaxShapes - 1)

\* the lists of one or two different shape indices
IndexLists(n) ==
    {<<i>> : i \in 0..(n - 1)}
    \cup {<<p[1], p[2]>> : p \in {q \in (0..(n - 1)) \X (0..(n - 1)) : q[1] # q[2]}}

\* an index argument naming existing shapes: an integer or a list
ValidIndex(n) == {PyInt(i) : i \in 0..(n - 1)} \cup {PyList(l) : l \in IndexLists(n)}

\* candidate values for an assignment to z_order when there are n shapes and
\* the current order is z: the permutations of 0..n-1, and z with an entry
\* repeated, with an entry out of range, with an entry dropped or added
PermutationsOf(n) == {f \in [1..n -> 0..(n - 1)] : Range(f) = 0..(n - 1)}

ZOrders(n, z) ==
    PermutationsOf(n)
    \cup {Append(z, n)}
    \cup (IF n >= 1 THEN {Tail(z), [z EXCEPT ![1] = n]} ELSE {})
    \cup (IF n >= 2 THEN {[z EXCEPT ![1] = z[2]]} ELSE {})

ModeStrings == Modes \cup {"add_line"}

(***************************************************************************)
(* Calls of the public interface                                           *)
(***************************************************************************)
Init ==
    /\ layer = InitLayer
    /\ call = [op |-> "__init__", arg |-> <<>>]
    /\ button = "up"
    /\ held = {}

AddShapes ==
    \E new \in NewShapes(ApiShapes, MaxShapes - count(layer)) :
        /\ layer' = add_shapes(Begin(layer), new)
        /\ call' = [op |-> "add_shapes", arg |-> Len(new)]
        /\ UNCHANGED <<button, held>>

RemoveShapes ==
    \E index \in {PyTrue} \cup ValidIndex(count(layer)) :
        /\ layer' = remove_shapes(Begin(layer), index)
        /\ call' = [op |-> "remove_shapes", arg |-> index]
        /\ UNCHANGED <<button, held>>

EditShape ==
    \E index \in 0..(count(layer) - 1), vertices \in EditVertices :
        /\ layer' = edit_shape(Begin(layer), index, vertices)
        /\ call' = [op |-> "edit_shape", arg |-> index]
        /\ UNCHANGED <<button, held>>

MoveForward ==
    \E index \in ValidIndex(count(layer)) :
        /\ layer' = move_forward(Begin(layer), index)
        /\ call' = [op |-> "move_forward", arg |-> index]
        /\ UNCHANGED <<button, held>>

MoveBackward ==
    \E index \in ValidIndex(count(layer)) :
        /\ layer' = move_backward(Begin(layer), index)
        /\ call' = [op |-> "move_backward", arg |-> index]
        /\ UNCHANGED <<button, held>>

MoveToFront ==
    \E index \in ValidIndex(count(layer)) :
        /\ layer' = move_to_front(Begin(layer), index)
        /\ call' = [op |-> "move_to_front", arg |-> index]
        /\ UNCHANGED <<button, held>>

MoveToBack ==
    \E index \in ValidIndex(count(layer)) :
        /\ layer' = move_to_back(Begin(layer), index)
        /\ call' = [op |-> "move_to_back", arg |-> index]
        /\ UNCHANGED <<button, held>>

SetZOrder ==
    \E z_order \in ZOrders(count(layer), layer._z_order) :
        /\ layer' = z_order_setter(Begin(layer), z_order)
        /\ call' = [op |-> "z_order", arg |-> z_order]
        /\ UNCHANGED <<button, held>>

Next ==
    \/ AddShapes
    \/ RemoveShapes
    \/ EditShape
    \/ MoveForward
    \/ MoveBackward
    \/ MoveToFront
    \/ MoveToBack
    \/ SetZOrder

Spec == Init /\ [][Next]_vars

(***************************************************************************)
(* Pointer events on a scene (specification SpecMouse).  The scenes hold   *)
(* one or two overlapping rectangles in either z-order, in any of the four *)
(* modes; a shape may be hidden before the first pointer event.  The       *)
(* pointer visits three positions: PointO lies inside both rectangles,     *)
(* PointE outside of them, PointH inside RectB and on the lower right      *)
(* handle of the box of RectA.  The button is down between a press and the *)
(* release that follows it, and a move is a drag while it is down.         *)
(***************************************************************************)
PointO == <<34, 24>>
PointE == <<70, 10>>
PointH == <<44, 45>>

Pointer == {PointO, PointE, PointH}

SceneShapes == <<NewShape("rectangle", RectA), NewShape("rectangle", RectB)>>

Scenes ==
    UNION {{z_order_setter(add_shapes(InitLayer, SubSeq(SceneShapes, 1, n)), z) :
                z \in PermutationsOf(n)} : n \in 1..Len(SceneShapes)}

\* the shapes stay on the canvas
CanvasSize == 80

OnCanvas(s) ==
    \A i \in DOMAIN s.vertices : \A v \in DOMAIN s.vertices[i] :
        /\ s.vertices[i][v][1] \in 0..CanvasSize
        /\ s.vertices[i][v][2] \in 0..CanvasSize

\* the moves that are delivered: no drag of a handle of the selected box
\* (resize, rotation) and no move that instantiates or resizes a rectangle
\* in add_rectangle mode
MoveGenerated(s, is_dragging) ==
    /\ ~(is_dragging /\ s._mode = "select" /\ Len(s._selected_shapes) > 0
         /\ s._selected_vertex[2] # None)
    /\ ~(s._mode = "add_rectangle" /\ (s._ready_to_create \/ s._creating))

InitMouse ==
    /\ layer \in {mode_setter(sc, m) : sc \in Scenes, m \in Modes}
    /\ call = [op |-> "__init__", arg |-> <<>>]
    /\ button = "up"
    /\ held = {}

MousePress ==
    /\ button = "up"
    /\ \E coord \in Pointer, shift \in BOOLEAN :
        /\ layer' = on_mouse_press(Begin(layer), coord, shift)
        /\ call' = [op |-> "on_mouse_press", arg |-> <<coord, shift>>]
    /\ button' = "down"
    /\ UNCHANGED held

MouseMove ==
    /\ MoveGenerated(layer, button = "down")
    /\ \E coord \in Pointer :
        /\ layer' = on_mouse_move(Begin(layer), coord, button = "down")
        /\ call' = [op |-> "on_mouse_move", arg |-> <<coord, button = "down">>]
    /\ OnCanvas(layer')
    /\ UNCHANGED <<button, held>>

\* the third argument recorded for a release is the press it follows
\* immediately, <<>> when other calls were made in between
MouseRelease ==
    /\ button = "down"
    /\ \E coord \in Pointer, shift \in BOOLEAN :
        /\ layer' = on_mouse_release(Begin(layer), coord, shift)
        /\ call' = [op |-> "on_mouse_release",
                    arg |-> <<coord, shift,
                              IF call.op = "on_mouse_press" THEN call.arg ELSE <<>> >>]
    /\ button' = "up"
    /\ UNCHANGED held

\* hide_shapes(i) for one shape, before the first pointer event
HideShapes ==
    /\ call.op = "__init__"
    /\ \E i \in 0..(count(layer) - 1) :
        /\ layer' = hide_shapes(Begin(layer), PyInt(i), None)
        /\ call' = [op |-> "hide_shapes", arg |-> PyInt(i)]
    /\ UNCHANGED <<button, held>>

NextMouse ==
    \/ MousePress
    \/ MouseMove
    \/ MouseRelease
    \/ HideShapes

SpecMouse == InitMouse /\ [][NextMouse]_vars

(***************************************************************************)
(* Mode changes between clicks (specification SpecMode): the scenes of     *)
(* SpecMouse, presses and releases of the button, and assignments of the   *)
(* mode property, one of them to a string that is not a mode.              *)
(***************************************************************************)
SetMode ==
    \E mode \in ModeStrings :
        /\ layer' = mode_setter(Begin(layer), mode)
        /\ call' = [op |-> "mode", arg |-> mode]
        /\ UNCHANGED <<button, held>>

NextMode ==
    \/ MousePress
    \/ MouseRelease
    \/ SetMode

SpecMode == InitMouse /\ [][NextMode]_vars

(***************************************************************************)
(* Keys between clicks (specification SpecKeys): a scene of one shape in   *)
(* any mode, presses and releases of the mouse button, and presses and     *)
(* releases of the space key and of the letter keys r, d, s, z.  A key     *)
(* that is down repeats: its further presses are auto-repeat events.  The  *)
(* letter keys are released at once.                                       *)
(***************************************************************************)
Keys == {" ", "r", "d", "s", "z"}

HeldKeys == {h[1] : h \in held}

KeyPress ==
    \E key \in Keys :
        /\ layer' = on_key_press(Begin(layer), key, key \in HeldKeys)
        /\ call' = [op |-> "on_key_press", arg |-> <<key, key \in HeldKeys>>]
        /\ held' = IF key = " " /\ key \notin HeldKeys
                   THEN held \cup {<<key, layer._mode>>} ELSE held
        /\ UNCHANGED button

\* the second argument recorded for a release is the mode the layer was in
\* when the key went down
KeyRelease ==
    \E h \in held :
        /\ layer' = on_key_release(Begin(layer), h[1])
        /\ call' = [op |-> "on_key_release", arg |-> h]
        /\ held' = held \ {h}
        /\ UNCHANGED button

NextKeys ==
    \/ MousePress
    \/ MouseRelease
    \/ KeyPress
    \/ KeyRelease

InitKeys ==
    /\ layer \in {mode_setter(sc, m) : sc \in {x \in Scenes : count(x) = 1}, m \in Modes}
    /\ call = [op |-> "__init__", arg |-> <<>>]
    /\ button = "up"
    /\ held = {}

SpecKeys == InitKeys /\ [][NextKeys]_vars

(***************************************************************************)
(* Drawing rectangles (specification SpecCreate): a layer with one shape   *)
(* in add_rectangle mode, all three pointer events and the keys 'r' and    *)
(* 's' (pressed and let go: releasing a letter key does nothing).  The     *)
(* pointer moves while the layer is in add_rectangle mode.  A move         *)
(* may instantiate a rectangle while the layer holds fewer than MaxShapes  *)
(* shapes; the drags that follow resize it about the corner where the      *)
(* button went down.                                                       *)
(***************************************************************************)
InitCreate ==
    /\ layer \in {mode_setter(sc, "add_rectangle") : sc \in {x \in Scenes : count(x) = 1}}
    /\ call = [op |-> "__init__", arg |-> <<>>]
    /\ button = "up"
    /\ held = {}

MouseMoveCreate ==
    /\ layer._mode = "add_rectangle"
    /\ count(layer) < MaxShapes \/ ~layer._ready_to_create
    /\ \E coord \in Pointer :
        /\ layer' = on_mouse_move(Begin(layer), coord, button = "down")
        /\ call' = [op |-> "on_mouse_move", arg |-> <<coord, button = "down">>]
    /\ OnCanvas(layer')
    /\ UNCHANGED <<button, held>>

CreateKeys == {"r", "s"}

KeyPressCreate ==
    /\ \E key \in CreateKeys :
        /\ layer' = on_key_press(Begin(layer), key, FALSE)
        /\ call' = [op |-> "on_key_press", arg |-> <<key, FALSE>>]
    /\ UNCHANGED <<button, held>>

NextCreate ==
    \/ MousePress
    \/ MouseMoveCreate
    \/ MouseRelease
    \/ KeyPressCreate

SpecCreate == InitCreate /\ [][NextCreate]_vars

(***************************************************************************)
(* Keys during a drag (specification SpecDrag): a layer with one shape in  *)
(* select mode, all three pointer events and the keys 'z' and 's' (pressed *)
(* and let go), which may come while the button is down.                   *)
(***************************************************************************)
InitDrag ==
    /\ layer \in {mode_setter(sc, "select") : sc \in {x \in Scenes : count(x) = 1}}
    /\ call = [op |-> "__init__", arg |-> <<>>]
    /\ button = "up"
    /\ held = {}

DragKeys == {"z", "s"}

KeyPressDrag ==
    /\ \E key \in DragKeys :
        /\ layer' = on_key_press(Begin(layer), key, FALSE)
        /\ call' = [op |-> "on_key_press", arg |-> <<key, FALSE>>]
    /\ UNCHANGED <<button, held>>

NextDrag ==
    \/ MousePress
    \/ MouseMove
    \/ MouseRelease
    \/ KeyPressDrag

SpecDrag == InitDrag /\ [][NextDrag]_vars

(***************************************************************************)
(* Resize drags (specification SpecResize): a layer with one shape in      *)
(* select mode, all three pointer events, drags of the handles of the      *)
(* selected box included, and the Shift key pressed and let go, which may  *)
(* come while the button is down.  The pointer visits PointO, PointH and   *)
(* PointT, on the top handle of the box of RectA; a pointer event carries  *)
(* the Shift modifier while the key is held.  A drag that starts inside    *)
(* the shape and would translate it is not delivered.                      *)
(***************************************************************************)
PointT == <<20, 3>>

ResizePointer == {PointO, PointH, PointT}

InitResize ==
    /\ layer \in {mode_setter(sc, "select") : sc \in {x \in Scenes : count(x) = 1}}
    /\ call = [op |-> "__init__", arg |-> <<>>]
    /\ button = "up"
    /\ held = {}

MousePressResize ==
    /\ button = "up"
    /\ \E coord \in ResizePointer :
        /\ layer' = on_mouse_press(Begin(layer), coord, "Shift" \in held)
        /\ call' = [op |-> "on_mouse_press", arg |-> <<coord, "Shift" \in held>>]
    /\ button' = "down"
    /\ UNCHANGED held

MouseMoveResize ==
    /\ ~(button = "down" /\ Len(layer._selected_shapes) > 0 /\ layer._selected_vertex[2] = None)
    /\ \E coord \in ResizePointer :
        /\ layer' = on_mouse_move(Begin(layer), coord, button = "down")
        /\ call' = [op |-> "on_mouse_move", arg |-> <<coord, button = "down">>]
    /\ layer'.exc # NotWhole
    /\ OnCanvas(layer')
    /\ UNCHANGED <<button, held>>

MouseReleaseResize ==
    /\ button = "down"
    /\ \E coord \in ResizePointer :
        /\ layer' = on_mouse_release(Begin(layer), coord, "Shift" \in held)
        /\ call' = [op |-> "on_mouse_release", arg |-> <<coord, "Shift" \in held, <<>> >>]
    /\ button' = "up"
    /\ UNCHANGED held

KeyShift ==
    /\ layer' = IF "Shift" \in held THEN on_key_release(Begin(layer), "Shift")
                 ELSE on_key_press(Begin(layer), "Shift", FALSE)
    /\ call' = [op |-> IF "Shift" \in held THEN "on_key_release" ELSE "on_key_press",
                arg |-> <<"Shift", FALSE>>]
    /\ held' = IF "Shift" \in held THEN held \ {"Shift"} ELSE held \cup {"Shift"}
    /\ layer'.exc # NotWhole
    /\ OnCanvas(layer')
    /\ UNCHANGED button

NextResize ==
    \/ MousePressResize
    \/ MouseMoveResize
    \/ MouseReleaseResize
    \/ KeyShift

SpecResize == InitResize /\ [][NextResize]_vars

(***************************************************************************)
(* Clicks on the handles (specification SpecHit): RectB and, inside it,    *)
(* the small RectS, whose handles lie closer together than the size of a   *)
(* vertex, in select mode.  HitAll is within reach of all eight handles of *)
(* the box of RectS, HitRot on its rotation handle, HitTl near its first   *)
(* corner only, HitB inside RectB away from the handles; all four are      *)
(* inside RectB.                                                           *)
(***************************************************************************)
RectS == << <<40, 50>>, <<46, 56>> >>

HitAll == <<43, 53>>
HitRot == <<43, 30>>
HitTl == <<36, 46>>
HitB == <<60, 70>>

HitPointer == {HitAll, HitRot, HitTl, HitB}

HitShapes == <<NewShape("rectangle", RectB), NewShape("rectangle", RectS)>>

InitHit ==
    /\ layer \in {mode_setter(z_order_setter(add_shapes(InitLayer, HitShapes), z), "select") :
                     z \in PermutationsOf(Len(HitShapes))}
    /\ call = [op |-> "__init__", arg |-> <<>>]
    /\ button = "up"
    /\ held = {}

MousePressHit ==
    /\ button = "up"
    /\ \E coord \in HitPointer, shift \in BOOLEAN :
        /\ layer' = on_mouse_press(Begin(layer), coord, shift)
        /\ call' = [op |-> "on_mouse_press", arg |-> <<coord, shift>>]
    /\ button' = "down"
    /\ UNCHANGED held

MouseReleaseHit ==
    /\ button = "down"
    /\ \E coord \in HitPointer, shift \in BOOLEAN :
        /\ layer' = on_mouse_release(Begin(layer), coord, shift)
        /\ call' = [op |-> "on_mouse_release", arg |-> <<coord, shift>>]
    /\ button' = "up"
    /\ UNCHANGED held

NextHit ==
    \/ MousePressHit
    \/ MouseReleaseHit

SpecHit == InitHit /\ [][NextHit]_vars

(***************************************************************************)
(* Selecting and removing (specification SpecSelect): clicks on a scene,   *)
(* and calls of remove_shapes between them.                                *)
(***************************************************************************)
NextSelect ==
    \/ MousePress
    \/ MouseRelease
    \/ RemoveShapes

SpecSelect == InitMouse /\ [][NextSelect]_vars

(***************************************************************************)
(* The selection under all events (specification SpecSelection): a layer   *)
(* with one shape in select mode; all three pointer events, the keys 'r'   *)
(* and 's', and calls of add_shapes and remove_shapes between them, also   *)
(* while the button is down.  A move draws a marquee or hovers; drags that *)
(* translate or resize the selection and moves that instantiate a          *)
(* rectangle (specification SpecCreate has those) are not delivered.       *)
(***************************************************************************)
SelectionKeys == {"r", "s"}

MouseMoveSelection ==
    /\ ~(button = "down" /\ layer._mode \in {"select", "direct"}
          /\ Len(layer._selected_shapes) > 0)
    /\ ~(layer._mode = "add_rectangle" /\ (layer._ready_to_create \/ layer._creating))
    /\ \E coord \in Pointer :
        /\ layer' = on_mouse_move(Begin(layer), coord, button = "down")
        /\ call' = [op |-> "on_mouse_move", arg |-> <<coord, button = "down">>]
    /\ UNCHANGED <<button, held>>

KeyPressSelection ==
    /\ \E key \in SelectionKeys :
        /\ layer' = on_key_press(Begin(layer), key, FALSE)
        /\ call' = [op |-> "on_key_press", arg |-> <<key, FALSE>>]
    /\ UNCHANGED <<button, held>>

AddShapesSelection ==
    /\ count(layer) < MaxShapes
    /\ layer' = add_shapes(Begin(layer), <<NewShape("rectangle", RectB)>>)
    /\ call' = [op |-> "add_shapes", arg |-> 1]
    /\ UNCHANGED <<button, held>>

NextSelection ==
    \/ MousePress
    \/ MouseMoveSelection
    \/ MouseRelease
    \/ KeyPressSelection
    \/ AddShapesSelection
    \/ RemoveShapes

SpecSelection == InitDrag /\ [][NextSelection]_vars

(***************************************************************************)
(* Editing shapes of every kind but the ellipse (specification SpecEdit):  *)
(* shapes are added, edited and reordered.                                 *)
(***************************************************************************)
PolygonF == expand_box_corners(RectB)

EditableShapes ==
    {NewShape("rectangle", RectA), NewShape("line", LineC),
     NewShape("path", PathD), NewShape("polygon", PolygonF)}

AddShapesEdit ==
    \E new \in NewShapes(EditableShapes, MaxShapes - count(layer)) :
        /\ layer' = add_shapes(Begin(layer), new)
        /\ call' = [op |-> "add_shapes", arg |-> Len(new)]
        /\ UNCHANGED <<button, held>>

NextEdit ==
    \/ AddShapesEdit
    \/ EditShape
    \/ SetZOrder

SpecEdit == Init /\ [][NextEdit]_vars

(***************************************************************************)
(* What the mesh visual is given (specification SpecView): shapes of an    *)
(* N-D collection are added, removed, edited, hidden, shown and reordered, *)
(* and the viewer moves its slice.  The shapes are polygons and lines      *)
(* whose vertices have a third coordinate, the plane they are stored at;   *)
(* ShapesData keeps the rows of the vertices as they are given.            *)
(***************************************************************************)
Planes == {2, 3}

AtPlane(v, p) == [k \in DOMAIN v |-> <<v[k][1], v[k][2], p>>]

ViewShapes == {NewShape("polygon", AtPlane(TriangleE, 2)), NewShape("line", AtPlane(LineC, 3))}

ViewEditVertices == {AtPlane(PathD, 3)}

ObjectTypes == {None, 0, 1}

AddShapesView ==
    \E new \in NewShapes(ViewShapes, MaxShapes - count(layer)) :
        /\ layer' = add_shapes(Begin(layer), new)
        /\ call' = [op |-> "add_shapes", arg |-> Len(new)]
        /\ UNCHANGED <<button, held>>

EditShapeView ==
    \E index \in 0..(count(layer) - 1), vertices \in ViewEditVertices :
        /\ layer' = edit_shape(Begin(layer), index, vertices)
        /\ call' = [op |-> "edit_shape", arg |-> index]
        /\ UNCHANGED <<button, held>>

HideShapesView ==
    \E index \in {PyTrue} \cup {PyInt(i) : i \in 0..(count(layer) - 1)}, object_type \in ObjectTypes :
        /\ layer' = hide_shapes(Begin(layer), index, object_type)
        /\ call' = [op |-> "hide_shapes", arg |-> <<index, object_type>>]
        /\ UNCHANGED <<button, held>>

ShowShapesView ==
    \E index \in {PyTrue} \cup {PyInt(i) : i \in 0..(count(layer) - 1)}, object_type \in ObjectTypes :
        /\ layer' = show_shapes(Begin(layer), index, object_type)
        /\ call' = [op |-> "show_shapes", arg |-> <<index, object_type>>]
        /\ UNCHANGED <<button, held>>

\* the viewer moves to the slice `indices` and the layer is refreshed:
\* _refresh -> _update -> _set_view_slice(self.viewer.dims.indices)
SetViewSlice ==
    \E indices \in Planes :
        /\ layer' = refresh(Begin(layer))
        /\ call' = [op |-> "_set_view_slice", arg |-> indices]
        /\ UNCHANGED <<button, held>>

NextView ==
    \/ AddShapesView
    \/ RemoveShapes
    \/ EditShapeView
    \/ HideShapesView
    \/ ShowShapesView
    \/ MoveToFront
    \/ SetZOrder
    \/ SetViewSlice

SpecView == Init /\ [][NextView]_vars

(***************************************************************************)
(* The Rectangles and Box layers (gui/layers/_rectangles_layer.py and      *)
(* gui/layers/_box_layer.py; specification SpecBoxes).  Here `layer` is a  *)
(* layer of one of the two classes: cls is its class, coords its N x 2 x D *)
(* array of corner pairs, indices the viewer's current indices             *)
(* (viewer.dimensions.indices), node_data the array handed to the visual   *)
(* by _node.set_data and value what the last get_value returned (for a Box *)
(* also its _selected_boxes): None, or <<index, vertex>>.  The code        *)
(* computes midpoints and the 0.5 offset of the visual in floats; the      *)
(* model counts the expanded boxes in half units, so that a point          *)
(* <<2x, 2y>> of an expanded box stands for <<x, y>>.                      *)
(***************************************************************************)
MaxBoxes == 2

\* coords[matches, :, :2] for one box
first_two(box) == << <<box[1][1], box[1][2]>>, <<box[2][1], box[2][2]>> >>

\* matches.nonzero()[0]: the 0-based positions of the true entries
RECURSIVE nonzero_from(_, _)
nonzero_from(mask, k) ==
    IF mask = <<>> THEN <<>>
    ELSE (IF Head(mask) THEN <<k>> ELSE <<>>) \o nonzero_from(Tail(mask), k + 1)

nonzero(mask) == nonzero_from(mask, 0)

\* (variant: only the first corner of a box is compared with the slice)
slice_boxes_first_corner(coords, indices) ==
    LET matches == [k \in DOMAIN coords |->
                      \A a \in 3..Len(indices) : coords[k][1][a] = indices[a]]
    IN [in_slice_boxes |-> compress([k \in DOMAIN coords |-> first_two(coords[k])], matches),
        matches |-> matches]

\* Rectangles._slice_boxes and Box._slice_boxes (the same code)
slice_boxes(coords, indices) ==
    IF Len(coords) > 0
    THEN LET matches == [k \in DOMAIN coords |->
                           \A c \in 1..2 : \A a \in 3..Len(indices) : coords[k][c][a] = indices[a]]
         IN [in_slice_boxes |-> compress([k \in DOMAIN coords |-> first_two(coords[k])], matches),
             matches |-> matches]
    ELSE [in_slice_boxes |-> <<>>, matches |-> <<>>]

\* Box._expand_box: tl, tr, br, bl (in half units)
Box_expand_box(box) ==
    LET c == expand_box_corners(box)
    IN [v \in 1..4 |-> <<2 * c[v][1], 2 * c[v][2]>>]

\* Rectangles._expand_bounding_box: corners and edge midpoints (in half units)
Rectangles_expand_bounding_box(box) ==
    LET c == expand_box_corners(box)
        sum(p, q) == <<p[1] + q[1], p[2] + q[2]>>
    IN <<sum(c[1], c[1]), sum(c[1], c[2]), sum(c[2], c[2]), sum(c[2], c[3]),
         sum(c[3], c[3]), sum(c[3], c[4]), sum(c[4], c[4]), sum(c[4], c[1])>>

expand_of(cls, box) ==
    IF cls = "Box" THEN Box_expand_box(box) ELSE Rectangles_expand_bounding_box(box)

\* the position of the bottom right corner in an expanded box (0-based)
br_of(cls) == IF cls = "Box" THEN 2 ELSE 4

MaxOf(S) == CHOOSE x \in S : \A y \in S : y <= x

\* matches = matches.nonzero()[0]; matches[r]: the index in coords of the
\* box at position r of the slice
full_index(matches, r) == nonzero(matches)[r]

\* Rectangles._get_selected_shapes and Box._set_selected_boxes: the last
\* box of the slice with a vertex within size/2 of the point, else the last
\* one whose corners tl and br enclose it
get_selected(s, indices) ==
    LET sl == slice_boxes(s.coords, indices)
        boxes == [k \in DOMAIN sl.in_slice_boxes |-> expand_of(s.cls, sl.in_slice_boxes[k])]
        offset(k, v) == <<2 * indices[1] - boxes[k][v][1], 2 * indices[2] - boxes[k][v][2]>>
        near(k, v) == abs(offset(k, v)[1]) <= s.size /\ abs(offset(k, v)[2]) <= s.size
        rows == {k \in DOMAIN boxes : \E v \in DOMAIN boxes[k] : near(k, v)}
        inside == {k \in DOMAIN boxes :
                     /\ offset(k, 1)[1] >= 0 /\ offset(k, 1)[2] >= 0
                     /\ offset(k, br_of(s.cls) + 1)[1] <= 0 /\ offset(k, br_of(s.cls) + 1)[2] <= 0}
    IN IF Len(sl.in_slice_boxes) > 0
       THEN IF rows # {}
            THEN <<full_index(sl.matches, MaxOf(rows)),
                   MaxOf({v \in DOMAIN boxes[MaxOf(rows)] : near(MaxOf(rows), v)}) - 1>>
            ELSE IF inside # {} THEN <<full_index(sl.matches, MaxOf(inside)), None>>
                 ELSE NoneArr
       ELSE NoneArr

\* Rectangles._set_view_slice and Box._set_view_slice: the expanded boxes of
\* the slice, shifted by 0.5, go to the visual
boxes_set_view_slice(s, indices) ==
    LET sl == slice_boxes(s.coords, indices)
    IN [s EXCEPT !.node_data =
            [k \in DOMAIN sl.in_slice_boxes |->
                LET b == expand_of(s.cls, sl.in_slice_boxes[k])
                IN [v \in DOMAIN b |-> <<b[v][1] + 1, b[v][2] + 1>>]]]

\* _refresh -> _update -> _set_view_slice(self.viewer.dimensions.indices)
boxes_refresh(s) == boxes_set_view_slice(s, s.indices)

\* the coords setter
coords_setter(s, coords) == boxes_refresh([s EXCEPT !.coords = coords])

\* _get_coord: the viewer's indices with the pointer on the first two axes
boxes_get_coord(position, indices) == [indices EXCEPT ![1] = position[1], ![2] = position[2]]

\* get_value
get_value(s, position) ==
    [s EXCEPT !.value = get_selected(s, boxes_get_coord(position, s.indices))]

BoxP == << <<0, 0, 2>>, <<40, 40, 2>> >>
BoxQ == << <<20, 20, 3>>, <<80, 80, 3>> >>
BoxR == << <<20, 20, 2>>, <<80, 80, 3>> >>
BoxS == << <<20, 20, 2>>, <<80, 80, 2>> >>

BoxSet == {BoxP, BoxQ, BoxR, BoxS}

BoxArrays == UNION {[1..n -> BoxSet] : n \in 0..MaxBoxes}

BoxPointer == {<<30, 30>>, <<50, 50>>, <<0, 0>>, <<90, 90>>}

InitBoxes ==
    /\ layer \in {[cls |-> c, coords |-> <<>>, size |-> 10, indices |-> <<0, 0, p>>,
                    node_data |-> <<>>, value |-> NoneArr] : c \in {"Rectangles", "Box"}, p \in Planes}
    /\ call = [op |-> "__init__", arg |-> <<>>]
    /\ button = "up"
    /\ held = {}

SetCoords ==
    \E coords \in BoxArrays :
        /\ layer' = coords_setter(layer, coords)
        /\ call' = [op |-> "coords", arg |-> <<>>]
        /\ UNCHANGED <<button, held>>

\* the viewer moves to another plane and refreshes the layer
SetIndices ==
    \E p \in Planes :
        /\ layer' = boxes_refresh([layer EXCEPT !.indices = <<0, 0, p>>])
        /\ call' = [op |-> "_set_view_slice", arg |-> <<0, 0, p>>]
        /\ UNCHANGED <<button, held>>

GetValue ==
    \E position \in BoxPointer :
        /\ layer' = get_value(layer, position)
        /\ call' = [op |-> "get_value", arg |-> boxes_get_coord(position, layer.indices)]
        /\ UNCHANGED <<button, held>>

NextBoxes ==
    \/ SetCoords
    \/ SetIndices
    \/ GetValue

SpecBoxes == InitBoxes /\ [][NextBoxes]_vars

(***************************************************************************)
(* Drawing and resizing in the Rectangles layer (specification SpecRect).  *)
(* The layer shows a 2-D image: coords is an N x 2 x 2 integer array, as   *)
(* numpy builds it from the integer corners _add appends, so a float       *)
(* assigned to one of its entries is truncated toward zero.  _fixed is the *)
(* expanded box in half units and _aspect_ratio the pair <<height, width>> *)
(* of the quotient the code keeps.  The layer is followed up to the first  *)
(* box with no width or no height; boxes are dragged while they are drawn  *)
(* (mode 'add').                                                           *)
(***************************************************************************)
\* the int() of a quotient with a positive divisor: truncation toward zero
trunc_div(a, b) == IF a >= 0 THEN a \div b ELSE -((-a) \div b)

sgn(x) == IF x < 0 THEN -1 ELSE 1

\* corner k (k even) of a box expanded by _expand_bounding_box
fixed_corner(fixed, k) == <<fixed[k + 1][1] \div 2, fixed[k + 1][2] \div 2>>

\* Rectangles._add, lines 384-395: the clamping of one axis
add_clamp(tl, br, max) ==
    LET t1 == IF br > max - 1 THEN max - 1 - 50 ELSE tl
        b1 == IF br > max - 1 THEN max - 1 ELSE br
    IN IF t1 < 0 THEN <<0, 50>> ELSE <<t1, b1>>

\* Rectangles._add
rect_add(s, coord, br) ==
    LET tl0 == IF br = NoneArr THEN <<coord[1] - 25, coord[2] - 25>> ELSE coord
        br0 == IF br = NoneArr THEN <<coord[1] + 25, coord[2] + 25>>
               ELSE <<IF br[1] = coord[1] THEN coord[1] + 1 ELSE br[1],
                      IF br[2] = coord[2] THEN coord[2] + 1 ELSE br[2]>>
        a1 == add_clamp(tl0[1], br0[1], s.max_shape[1])
        a2 == add_clamp(tl0[2], br0[2], s.max_shape[2])
        s1 == coords_setter(s, Append(s.coords, << <<a1[1], a2[1]>>, <<a1[2], a2[2]>> >>))
    IN boxes_refresh([s1 EXCEPT !._selected_shapes =
                         <<Len(s1.coords) - 1, IF br = NoneArr THEN None ELSE 2>>])

\* Rectangles._move, lines 448-459: a moved box is kept on the image (one
\* axis, in half units)
move_clamp(tl, br, max) ==
    LET t1 == IF tl < 0 THEN 0 ELSE tl
        b1 == IF tl < 0 THEN br - tl ELSE br
    IN IF b1 > 2 * (max - 1) THEN <<2 * (max - 1) - (b1 - t1), 2 * (max - 1)>> ELSE <<t1, b1>>

\* Rectangles._move, lines 437-460: the selected box follows the pointer
rect_move_box(s, coord, i) ==
    LET c == expand_box_corners(At(s.coords, i))
        w == <<c[3][1] - c[1][1], c[3][2] - c[1][2]>>
        d == IF s._drag_start = NoneArr THEN <<0, 0>>
             ELSE <<s._drag_start[1] - coord[1], s._drag_start[2] - coord[2]>>
        tl(a) == IF s._drag_start = NoneArr THEN 2 * coord[a] - w[a] ELSE 2 * (c[1][a] - d[a])
        br(a) == IF s._drag_start = NoneArr THEN 2 * coord[a] + w[a] ELSE 2 * (c[3][a] - d[a])
        m(a) == move_clamp(tl(a), br(a), s.max_shape[a])
    IN [s EXCEPT !._drag_start = IF @ = NoneArr THEN @ ELSE coord,
                 !.coords[i + 1] = << <<trunc_div(m(1)[1], 2), trunc_div(m(2)[1], 2)>>,
                                      <<trunc_div(m(1)[2], 2), trunc_div(m(2)[2], 2)>> >>]

\* Rectangles._move, lines 486-499: with shift the dragged corner keeps the
\* aspect ratio h / w of the box; the result goes into the integer array
resize_aspect(tl, br, h, w) ==
    LET dx == tl[1] - br[1]
        dy == tl[2] - br[2]
    IN IF abs(dy) * w > h * abs(dx)
       THEN <<tl[1], trunc_div(br[2] * w + sgn(dy) * abs(dx) * h, w)>>
       ELSE <<trunc_div(br[1] * h + sgn(dx) * abs(dy) * w, h), tl[2]>>

\* Rectangles._move, lines 478-485: corners that coincide on an axis are
\* moved apart by one
resize_apart(tl, br, v) ==
    <<IF tl[1] = br[1] THEN (IF v \in {1, 2} THEN tl[1] + 1 ELSE tl[1] - 1) ELSE tl[1],
      IF tl[2] = br[2] THEN (IF v \in {2, 3} THEN tl[2] + 1 ELSE tl[2] - 1) ELSE tl[2]>>

\* Rectangles._move, lines 466-469: the first move of a drag keeps the box,
\* the handle opposite the dragged one and the aspect ratio
move_fix(s, v, box) ==
    IF s._fixed = NoneArr
    THEN [s EXCEPT !._fixed_index = (v + 4) % 8, !._fixed = box,
                   !._aspect_ratio = <<box[5][2] - box[1][2], box[5][1] - box[1][1]>>]
    ELSE s

\* Rectangles._move, lines 471-482: the corner br that stays
move_br(fixed, fi) == fixed_corner(fixed, IF fi % 2 = 0 THEN fi ELSE (fi - 1) % 8)

\* Rectangles._move, lines 471-482: the corner tl that follows the pointer
move_tl(fixed, fi, coord) ==
    IF fi % 2 = 0 THEN coord
    ELSE IF fi % 4 = 1 THEN <<fixed_corner(fixed, (fi + 1) % 8)[1], coord[2]>>
    ELSE <<coord[1], fixed_corner(fixed, (fi + 1) % 8)[2]>>

\* Rectangles._move, lines 495-502: the fixed-aspect adjustment of a corner
move_aspect(s, tl, br) ==
    IF s._fixed_aspect /\ s._fixed_index % 2 = 0
    THEN resize_aspect(tl, br, s._aspect_ratio[1], s._aspect_ratio[2])
    ELSE tl

\* Rectangles._move, lines 471-504: the box is stored as [tl, br]
move_store(s, i, v, tl, br) ==
    [s EXCEPT !.coords[i + 1] = <<move_aspect(s, resize_apart(tl, br, v), br), br>>]

\* Rectangles._move, lines 471-504, once _fixed is set
move_resize(s, coord, i, v) ==
    move_store(s, i, v, move_tl(s._fixed, s._fixed_index, coord),
               move_br(s._fixed, s._fixed_index))

\* Rectangles._move, lines 465-504: the selected handle v is dragged
rect_move_vertex(s, coord, i, v) ==
    move_resize(move_fix(s, v, Rectangles_expand_bounding_box(At(s.coords, i))), coord, i, v)

\* Rectangles._move
rect_move(s, coord) ==
    LET s1 == [s EXCEPT !._is_moving = TRUE]
        index == s._selected_shapes
    IN IF index = NoneArr THEN s1
       ELSE boxes_refresh(
              [(IF index[2] = None THEN rect_move_box(s1, coord, index[1])
                ELSE rect_move_vertex(s1, coord, index[1], index[2]))
               EXCEPT !.highlight = TRUE, !._selected_shapes_stored = index])

\* Rectangles._select
rect_select(s) ==
    IF s._selected_shapes = s._selected_shapes_stored THEN s
    ELSE [s EXCEPT !.highlight = (s._selected_shapes # NoneArr),
                   !._selected_shapes_stored = s._selected_shapes]

\* Rectangles._unselect
rect_unselect(s) ==
    IF s.highlight
    THEN boxes_refresh([s EXCEPT !.highlight = FALSE, !._selected_shapes_stored = NoneArr])
    ELSE s

\* Rectangles.interact, mode 'edit'
interact_edit(s, coord, ev) ==
    IF ev.pressed
    THEN [s EXCEPT !._selected_shapes = get_selected(s, coord), !._drag_start = coord]
    ELSE IF ev.moving /\ ev.dragging THEN rect_move(s, coord)
    ELSE IF ev.released THEN [s EXCEPT !._is_moving = FALSE]
    ELSE IF s._is_moving THEN s
    ELSE [rect_select([s EXCEPT !._selected_shapes = get_selected(s, coord)])
            EXCEPT !._fixed = NoneArr]

\* Rectangles.interact, mode 'add'
interact_add(s, coord, ev) ==
    IF ev.pressed
    THEN [s EXCEPT !._ready_to_create_box = TRUE, !._creating_box = FALSE, !._create_tl = coord]
    ELSE IF ev.moving /\ ev.dragging
    THEN IF s._ready_to_create_box
         THEN [rect_add([s EXCEPT !.highlight = TRUE], s._create_tl, coord)
                 EXCEPT !._ready_to_create_box = FALSE, !._creating_box = TRUE]
         ELSE IF s._creating_box THEN rect_move(s, coord) ELSE s
    ELSE IF ev.released /\ ev.dragging
    THEN [(IF s._creating_box
           THEN [rect_unselect([s EXCEPT !._creating_box = FALSE]) EXCEPT !._fixed = NoneArr]
           ELSE [rect_add(s, coord, NoneArr) EXCEPT !._ready_to_create_box = FALSE])
          EXCEPT !._is_moving = FALSE]
    ELSE IF ev.released THEN [s EXCEPT !._is_moving = FALSE]
    ELSE rect_unselect(s)

\* Rectangles.interact, lines 550-554: a change of shift is stored, and
\* redoes the move of a box that is being moved
interact_shift(s, coord, shift) ==
    IF s._fixed_aspect # shift
    THEN IF s._is_moving THEN rect_move([s EXCEPT !._fixed_aspect = shift], coord)
         ELSE [s EXCEPT !._fixed_aspect = shift]
    ELSE s

\* Rectangles.interact, lines 556-615, with ctrl = False
interact_mode(s, coord, mode, ev) ==
    IF mode = "edit" THEN interact_edit(s, coord, ev) ELSE interact_add(s, coord, ev)

MaxRects == 1

RectPointer == {<<0, 0>>, <<40, 20>>, <<1, 40>>}

RectModes == {"add"}

Event(kind, dragging) ==
    [pressed |-> kind = "press", released |-> kind = "release",
     moving |-> kind \in {"drag", "hover"}, dragging |-> dragging]

\* the events the canvas delivers while the button is up or down
EventsWhen(b) ==
    IF b = "up" THEN {Event("press", FALSE), Event("hover", FALSE)}
    ELSE {Event("drag", TRUE), Event("release", TRUE), Event("release", FALSE)}

NonDegenerate(box) == box[1][1] # box[2][1] /\ box[1][2] # box[2][2]

InitRect ==
    /\ layer = [cls |-> "Rectangles", coords |-> <<>>, size |-> 10, indices |-> <<0, 0>>,
                node_data |-> <<>>, value |-> NoneArr,
                max_shape |-> <<CanvasSize, CanvasSize>>,
                _selected_shapes |-> NoneArr, _selected_shapes_stored |-> NoneArr,
                _ready_to_create_box |-> FALSE, _creating_box |-> FALSE, _create_tl |-> NoneArr,
                _drag_start |-> NoneArr, _fixed |-> NoneArr, _fixed_aspect |-> FALSE,
                _aspect_ratio |-> <<1, 1>>, highlight |-> FALSE, _is_moving |-> FALSE,
                _fixed_index |-> 0]
    /\ call = [op |-> "__init__", arg |-> <<>>]
    /\ button = "up"
    /\ held = {}

Interact ==
    /\ \A k \in DOMAIN layer.coords : NonDegenerate(layer.coords[k])
    /\ \E position \in RectPointer, mode \in RectModes, shift \in BOOLEAN, ev \in EventsWhen(button) :
        /\ \E s1 \in {interact_shift(layer, position, shift)} :
               layer' = interact_mode(s1, position, mode, ev)
        /\ call' = [op |-> "interact", arg |-> <<mode, ev.pressed, ev.released, ev.dragging>>]
        /\ button' = IF ev.pressed THEN "down" ELSE IF ev.released THEN "up" ELSE button
    /\ Len(layer'.coords) <= MaxRects
    /\ UNCHANGED held

SpecRect == InitRect /\ [][Interact]_vars

(***************************************************************************)
(* Dims (napari/components/dims.py; specification SpecDims).  The variable *)
(* layer holds the Dims object, call the last call with the events it      *)
(* emitted (in order) and the exception it raised.  The event emitters     *)
(* (napari/util/event.py) are not part of the sources read here: emitting  *)
(* is recorded, no listener runs.                                          *)
(***************************************************************************)
MaxNdim == 2

\* a Python value handed in as a label
PyStr(s) == [type |-> "str", val |-> s]

Digits == <<"0", "1", "2", "3", "4", "5", "6", "7", "8", "9">>

\* str(label) of a string or of a one-digit integer
py_str(label) == IF label.type = "str" THEN label.val ELSE Digits[label.val + 1]

\* the strings of the model in the order Python compares them
LabelOrder == <<"", "0", "1", "2", "3", "4", "5", "6", "7", "8", "9", "x", "y">>

label_pos(l) == CHOOSE k \in DOMAIN LabelOrder : LabelOrder[k] = l

\* list.insert(k, v)
list_insert(a, k, v) == SubSeq(a, 1, k) \o <<v>> \o SubSeq(a, k + 1, Len(a))

\* a[-n:]: the last n items, and all of them for n = 0
list_tail(a, n) == IF n = 0 \/ n >= Len(a) THEN a ELSE SubSeq(a, Len(a) - n + 1, Len(a))

Emit(name) == [name |-> name, axis |-> None]
EmitAxis(name, axis) == [name |-> name, axis |-> axis]

Done(d, events) == [dims |-> d, events |-> events, exc |-> NoExc]
Raised(d, e) == [dims |-> d, events |-> <<>>, exc |-> e]

\* Dims.ndim: len(self.point)
Dims_ndim(d) == Len(d._point)

\* Dims.set_initial_dims(axis, insert=True)
set_initial_dims(d, axis) ==
    [d EXCEPT !._range = list_insert(@, axis, <<0, 2, 1>>),
              !._point = list_insert(@, axis, 0),
              !._interval = list_insert(@, axis, <<0, 1>>),
              !._mode = list_insert(@, axis, "POINT"),
              !._order = <<axis>> \o [k \in DOMAIN @ |-> IF @[k] < axis THEN @[k] ELSE @[k] + 1],
              !._axis_labels = list_insert(@, axis, "")]

\* the loop of the ndim setter, lines 179-180
RECURSIVE grow(_, _)
grow(d, n) == IF n <= 0 THEN d ELSE grow(set_initial_dims(d, 0), n - 1)

\* Dims._order_after_dim_reduction on integers: arr[argsort(arr)] = range(len(arr))
order_after_dim_reduction(arr) ==
    [k \in DOMAIN arr |->
        Cardinality({j \in DOMAIN arr : arr[j] < arr[k] \/ (arr[j] = arr[k] /\ j < k)})]

\* Dims._order_after_dim_reduction on labels: the ranks are stored into the
\* array of strings
labels_after_dim_reduction(arr) ==
    [k \in DOMAIN arr |->
        Digits[1 + Cardinality({j \in DOMAIN arr :
                   \/ label_pos(arr[j]) < label_pos(arr[k])
                   \/ (arr[j] = arr[k] /\ j < k)})]]

\* the ndim setter
ndim_setter(d, ndim) ==
    IF Dims_ndim(d) = ndim THEN Done(d, <<>>)
    ELSE IF Dims_ndim(d) < ndim
    THEN Done(grow(d, ndim - Dims_ndim(d)),
              <<Emit("ndim")>> \o
              [k \in 1..(ndim - Dims_ndim(grow(d, ndim - Dims_ndim(d)))) |-> EmitAxis("axis", k - 1)])
    ELSE Done([d EXCEPT !._range = list_tail(@, ndim),
                        !._point = list_tail(@, ndim),
                        !._interval = list_tail(@, ndim),
                        !._mode = list_tail(@, ndim),
                        !._order = order_after_dim_reduction(list_tail(@, ndim)),
                        !._axis_labels = labels_after_dim_reduction(list_tail(@, ndim))],
              <<Emit("ndim")>>)

\* the axis_labels setter
axis_labels_setter(d, labels) ==
    IF d._axis_labels = labels THEN Done(d, <<>>)
    ELSE IF Len(labels) # Dims_ndim(d) THEN Raised(d, "ValueError")
    ELSE Done([d EXCEPT !._axis_labels = labels], <<Emit("axis_labels")>>)

\* Dims._assert_axis_inbound
assert_axis_inbound(d, axis) ==
    IF axis < 0 /\ axis + Dims_ndim(d) < 0 THEN RetRaise("ValueError")
    ELSE IF (IF axis < 0 THEN axis + Dims_ndim(d) ELSE axis) > Dims_ndim(d) + 1
    THEN RetRaise("ValueError")
    ELSE Ret(IF axis < 0 THEN axis + Dims_ndim(d) ELSE axis)

\* set_range, set_point, set_interval and set_mode: the axis is checked, the
\* item is read (IndexError past the end of the list) and, when it differs,
\* stored and announced by the event
set_item(d, field, event, inbound, value) ==
    IF inbound.exc # NoExc THEN Raised(d, inbound.exc)
    ELSE IF inbound.value >= Len(d[field]) THEN Raised(d, "IndexError")
    ELSE IF At(d[field], inbound.value) # value
    THEN Done([d EXCEPT ![field][inbound.value + 1] = value],
              <<EmitAxis(event, inbound.value)>>)
    ELSE Done(d, <<>>)

\* Dims.set_range
set_range(d, axis, range) == set_item(d, "_range", "range", assert_axis_inbound(d, axis), range)

\* Dims.set_point
set_point(d, axis, value) == set_item(d, "_point", "axis", assert_axis_inbound(d, axis), value)

\* Dims.set_interval
set_interval(d, axis, interval) ==
    set_item(d, "_interval", "axis", assert_axis_inbound(d, axis), interval)

\* Dims.set_mode
set_mode(d, axis, mode) == set_item(d, "_mode", "axis", assert_axis_inbound(d, axis), mode)

\* the axis_labels property: a copy of the list
axis_labels(d) == d._axis_labels

\* Dims.set_axis_label: self.axis_labels is read twice, each time a new
\* copy of the list; the assignment goes into the second copy
set_axis_label_at(d, inbound, label) ==
    IF inbound.exc # NoExc THEN Raised(d, inbound.exc)
    ELSE IF inbound.value >= Len(axis_labels(d)) THEN Raised(d, "IndexError")
    ELSE IF At(axis_labels(d), inbound.value) # py_str(label)
    THEN Done(d, <<EmitAxis("axis_labels", inbound.value)>>)
    ELSE Done(d, <<>>)

set_axis_label(d, axis, label) == set_axis_label_at(d, assert_axis_inbound(d, axis), label)

Axes == (0 - MaxNdim - 1)..(MaxNdim + 2)

Ranges == {<<0, 2, 1>>, <<0, 4, 1>>}

Points == {0, 1}

Intervals == {<<0, 1>>, <<1, 2>>}

DimsModes == {"POINT", "INTERVAL"}

Labels == {PyStr("x"), PyStr(""), PyInt(0)}

LabelLists == {<<"x">>, <<"x", "y">>, <<"y", "x">>}

\* Dims(init_ndim = 0)
InitDims ==
    /\ layer = [cls |-> "Dims", _range |-> <<>>, _point |-> <<>>, _interval |-> <<>>,
                _mode |-> <<>>, _order |-> <<>>, _axis_labels |-> <<>>,
                _ndisplay |-> 2, clip |-> TRUE]
    /\ call = [op |-> "__init__", arg |-> <<>>, events |-> <<>>, exc |-> NoExc]
    /\ button = "up"
    /\ held = {}

DimsCall(op, arg, r) ==
    /\ layer' = r.dims
    /\ call' = [op |-> op, arg |-> arg, events |-> r.events, exc |-> r.exc]
    /\ UNCHANGED <<button, held>>

DimsSetNdim == \E ndim \in 0..MaxNdim : DimsCall("ndim", <<ndim>>, ndim_setter(layer, ndim))

DimsSetAxisLabels ==
    \E labels \in LabelLists : DimsCall("axis_labels", <<labels>>, axis_labels_setter(layer, labels))

DimsSetRange ==
    \E axis \in Axes, range \in Ranges :
        DimsCall("set_range", <<axis, range>>, set_range(layer, axis, range))

DimsSetPoint ==
    \E axis \in Axes, value \in Points :
        DimsCall("set_point", <<axis, value>>, set_point(layer, axis, value))

DimsSetInterval ==
    \E axis \in Axes, interval \in Intervals :
        DimsCall("set_interval", <<axis, interval>>, set_interval(layer, axis, interval))

DimsSetMode ==
    \E axis \in Axes, mode \in DimsModes :
        DimsCall("set_mode", <<axis, mode>>, set_mode(layer, axis, mode))

DimsSetAxisLabel ==
    \E axis \in Axes, label \in Labels :
        DimsCall("set_axis_label", <<axis, label>>, set_axis_label(layer, axis, label))

NextDims ==
    \/ DimsSetNdim
    \/ DimsSetAxisLabels
    \/ DimsSetRange
    \/ DimsSetPoint
    \/ DimsSetInterval
    \/ DimsSetMode
    \/ DimsSetAxisLabel

SpecDims == InitDims /\ [][NextDims]_vars

(***************************************************************************)
(* The display order of the dimensions (specification SpecOrder): a Dims   *)
(* object whose number of dimensions is assigned (0..MaxOrder) and whose   *)
(* order is rolled and transposed.                                         *)
(***************************************************************************)
MaxOrder == 3

\* np.roll(order, 1)
np_roll(a) == IF a = <<>> THEN a ELSE <<a[Len(a)]>> \o SubSeq(a, 1, Len(a) - 1)

\* the order setter
order_setter(d, order) ==
    IF d._order = order THEN Done(d, <<>>)
    ELSE IF Len(order) # Dims_ndim(d) THEN Raised(d, "ValueError")
    ELSE Done([d EXCEPT !._order = order], <<Emit("order"), Emit("camera")>>)

\* Dims._roll
_roll(d) == order_setter(d, np_roll(d._order))

\* Dims._transpose: order[-2] is read first (IndexError for fewer than two
\* dimensions)
_transpose(d) ==
    IF Len(d._order) < 2 THEN Raised(d, "IndexError")
    ELSE order_setter(d, [d._order EXCEPT ![Len(d._order) - 1] = d._order[Len(d._order)],
                                          ![Len(d._order)] = d._order[Len(d._order) - 1]])

DimsSetNdimOrder ==
    \E ndim \in 0..MaxOrder : DimsCall("ndim", <<ndim>>, ndim_setter(layer, ndim))

DimsRoll == DimsCall("_roll", <<>>, _roll(layer))

DimsTranspose == DimsCall("_transpose", <<>>, _transpose(layer))

NextOrder ==
    \/ DimsSetNdimOrder
    \/ DimsRoll
    \/ DimsTranspose

SpecOrder == InitDims /\ [][NextOrder]_vars

(***************************************************************************)
(* Reading and writing with plugins (napari/plugins/io.py; specification   *)
(* SpecPlugins).  The variable layer holds one call of                     *)
(* read_data_with_plugins or write_multiple_layers_with_plugin: the hook   *)
(* implementations in hook order, the local skip_impls, the position in    *)
(* the function (pc), the value returned, the reader or writer calls made  *)
(* so far and PLUGIN_ERRORS (the plugin names, in the order the errors     *)
(* were made).  An implementation either offers a reader (writer) for the  *)
(* path or not, and the reader it offers raises, returns data or returns   *)
(* None.  execute_hook (napari/plugins/_hook_callers.py) is not part of    *)
(* the sources read here.                                                  *)
(***************************************************************************)
MaxImpls == 3

PluginNames == <<"builtins", "svg", "zarr", "tiff", "npy">>

Outcomes == {"raises", "data", "none"}

\* execute_hook(hook, return_impl=True, skip_impls=...): the first
\* implementation in hook order that is not skipped and returns a function
execute_hook(impls, skip_impls) ==
    LET offered == {k \in DOMAIN impls : impls[k].offers /\ k \notin Range(skip_impls)}
    IN IF offered = {} THEN None ELSE CHOOSE k \in offered : \A j \in offered : k <= j

\* what a reader or writer that does not raise returns
returned(impls, k) == IF impls[k].outcome = "data" THEN <<"data", k>> ELSE <<"None">>

\* read_data_with_plugins, lines 45-77: one turn of the loop that records
\* no PluginError
read_iteration_unrecorded(s) ==
    LET k == execute_hook(s.impls, s.skip_impls)
    IN IF k = None THEN [s EXCEPT !.pc = "done", !.result = <<"None">>]
       ELSE IF s.impls[k].outcome # "raises"
       THEN [s EXCEPT !.calls = Append(@, k), !.pc = "done", !.result = returned(s.impls, k)]
       ELSE [s EXCEPT !.calls = Append(@, k), !.skip_impls = Append(@, k)]

\* read_data_with_plugins, lines 45-77: one turn of the loop
read_iteration(s) ==
    LET k == execute_hook(s.impls, s.skip_impls)
    IN IF k = None THEN [s EXCEPT !.pc = "done", !.result = <<"None">>]
       ELSE IF s.impls[k].outcome # "raises"
       THEN [s EXCEPT !.calls = Append(@, k), !.pc = "done", !.result = returned(s.impls, k)]
       ELSE [s EXCEPT !.calls = Append(@, k),
                      !.PLUGIN_ERRORS = Append(@, s.impls[k].plugin_name),
                      !.skip_impls = Append(@, k)]

\* write_multiple_layers_with_plugin, lines 125-161: one turn of the loop
write_iteration(s) ==
    LET k == execute_hook(s.impls, s.skip_impls)
    IN IF k = None THEN [s EXCEPT !.pc = "done", !.result = <<"None">>]
       ELSE IF s.impls[k].outcome # "raises"
       THEN [s EXCEPT !.calls = Append(@, k), !.pc = "done", !.result = returned(s.impls, k)]
       ELSE [s EXCEPT !.calls = Append(@, k),
                      !.PLUGIN_ERRORS = Append(@, s.impls[k].plugin_name),
                      !.skip_impls = Append(@, k)]

\* write_multiple_layers_with_plugin with a plugin_name, lines 121 and
\* 162-167: the else belongs to `while True`, which is left by return only,
\* so the function falls off its end
write_named(s) == [s EXCEPT !.pc = "done", !.result = <<"None">>]

Impls ==
    UNION {[1..n -> [offers : BOOLEAN, outcome : Outcomes]] : n \in 0..MaxImpls}

\* the implementations registered, each under its plugin name
Registered(f) ==
    [k \in DOMAIN f |-> [plugin_name |-> PluginNames[k], offers |-> f[k].offers,
                         outcome |-> IF f[k].offers THEN f[k].outcome ELSE "none"]]

InitPlugins ==
    /\ \E f \in Impls, fn \in {"read", "write"}, name \in {None} \cup (1..MaxImpls) :
        /\ name # None => (fn = "write" /\ name \in DOMAIN f)
        /\ layer = [cls |-> "plugins", fn |-> fn, impls |-> Registered(f),
                    plugin_name |-> IF name = None THEN "None" ELSE PluginNames[name],
                    skip_impls |-> <<>>, PLUGIN_ERRORS |-> <<>>, calls |-> <<>>,
                    pc |-> "loop", result |-> <<>>]
    /\ call = [op |-> "__init__", arg |-> <<>>]
    /\ button = "up"
    /\ held = {}

PluginStep(op, s) ==
    /\ layer' = s
    /\ call' = [op |-> op, arg |-> <<Len(layer.skip_impls)>>]
    /\ UNCHANGED <<button, held>>

ReadIteration ==
    /\ layer.fn = "read" /\ layer.pc = "loop"
    /\ PluginStep("read_data_with_plugins", read_iteration(layer))

WriteIteration ==
    /\ layer.fn = "write" /\ layer.pc = "loop" /\ layer.plugin_name = "None"
    /\ PluginStep("write_multiple_layers_with_plugin", write_iteration(layer))

WriteNamed ==
    /\ layer.fn = "write" /\ layer.pc = "loop" /\ layer.plugin_name # "None"
    /\ PluginStep("write_multiple_layers_with_plugin", write_named(layer))

NextPlugins == ReadIteration \/ WriteIteration \/ WriteNamed

\* the function runs on until it returns
SpecPlugins == InitPlugins /\ [][NextPlugins]_vars /\ WF_vars(NextPlugins)

(***************************************************************************)
(* Properties of the z-order and of the mesh tags (specification Spec)     *)
(***************************************************************************)
IsPermutationOfShapes(z, n) ==
    /\ Len(z) = n
    /\ \A i \in 0..(n - 1) : \E k \in 1..n : z[k] = i

MoveOps == {"move_forward", "move_backward", "move_to_front", "move_to_back"}

\* C1: after any sequence of add_shapes, remove_shapes, edit_shape and
\* move_forward / move_backward / move_to_front / move_to_back calls with
\* valid shape indices, z_order is a permutation of 0..count-1.
C1_ZOrderIsPermutation == IsPermutationOfShapes(layer._z_order, count(layer))

\* a move call has reordered two shapes
C1_Witness ==
    /\ call.op \in MoveOps
    /\ layer.exc = NoExc
    /\ count(layer) >= 2
    /\ layer._z_order = <<0, 1>>

\* C2: assigning to z_order a sequence that is not a permutation of
\* 0..count-1 raises ValueError and leaves z_order and z_order_faces as
\* they were before the assignment.
C2_InvalidZOrderRejected ==
    [][(call'.op = "z_order" /\ ~IsPermutationOfShapes(call'.arg, count(layer)))
         => /\ layer'.exc = "ValueError"
            /\ layer'._z_order = layer._z_order
            /\ layer'._z_order_faces = layer._z_order_faces]_vars

\* an assignment of a sequence with a repeated entry was rejected
C2_Witness ==
    /\ call.op = "z_order"
    /\ layer.exc = "ValueError"
    /\ count(layer) >= 2
    /\ Len(call.arg) = count(layer)

\* the z_order that remains when shape i is deleted from z
ZOrderWithout(z, i) ==
    LET rest == SelectSeq(z, LAMBDA x : x # i)
    IN [k \in DOMAIN rest |-> IF rest[k] > i THEN rest[k] - 1 ELSE rest[k]]

\* C3: remove_shapes(i) with a single integer index i, 0 <= i < count,
\* removes exactly shape i: count decreases by one, the other shapes remain
\* and those after i are renumbered down by one, and the new z_order is the
\* old one with i deleted and the larger entries decremented.
C3_RemoveOneShape ==
    [][(call'.op = "remove_shapes" /\ call'.arg.type = "int")
         => LET i == call'.arg.val
            IN /\ count(layer') = count(layer) - 1
               /\ layer'.vertices = np_delete(layer.vertices, i)
               /\ layer'.id = np_delete(layer.id, i)
               /\ layer'._z_order = ZOrderWithout(layer._z_order, i)]_vars

\* C4: after any sequence of add_shapes and remove_shapes calls, the shape
\* indices that tag the mesh faces are exactly 0..count-1.
C4_MeshTagsContiguous ==
    {layer._mesh_faces_index[k][1] : k \in DOMAIN layer._mesh_faces_index}
        = 0..(count(layer) - 1)

\* the first of two shapes was removed and the second one renumbered
C4_Witness ==
    /\ call.op = "remove_shapes"
    /\ call.arg = PyInt(0)
    /\ layer.exc = NoExc
    /\ count(layer) = 1
    /\ layer._mesh_faces_index # <<>>

(***************************************************************************)
(* Properties of the pointer events (specification SpecMouse) and of the   *)
(* mode property (specification SpecMode).  The status message of the      *)
(* layer names the shape and the vertex that the last hit test reported.   *)
(***************************************************************************)
ListOf(shape) == IF shape = None THEN <<>> ELSE <<shape>>

\* the step is the release of a click: the press was the call before it, at
\* the same position, both with the modifier state shift, no drag running
ClickReleased(shift) ==
    /\ call.op = "on_mouse_press"
    /\ call'.op = "on_mouse_release"
    /\ call.arg = <<call'.arg[1], shift>>
    /\ call'.arg[2] = shift
    /\ ~layer._is_moving /\ ~layer._is_selecting
    /\ layer.exc = NoExc

\* C5: in select or direct mode with no drag in progress, a press followed
\* by a release at the same position with no modifier key sets
\* selected_shapes to [s] when the hit test at that position reports shape
\* s and to [] when it reports no shape, whatever was selected before.
C5_ClickSelectsHitShape ==
    [][(ClickReleased(FALSE) /\ layer._mode \in {"select", "direct"})
         => /\ layer'.exc = NoExc
            /\ layer'.status[2] = layer.status[2]
            /\ layer'._selected_shapes = ListOf(layer'.status[2])]_vars

\* a click on the shape in front of the other one has selected it alone
C5_Witness ==
    /\ call.op = "on_mouse_release"
    /\ call.arg = <<PointO, FALSE, <<PointO, FALSE>> >>
    /\ layer._mode = "select"
    /\ layer.exc = NoExc
    /\ layer._z_order = <<1, 0>>
    /\ layer._selected_shapes = <<1>>

\* selected with shape added at the end if it is missing, removed if not
Toggle(selected, shape) ==
    IF \E k \in DOMAIN selected : selected[k] = shape
    THEN SelectSeq(selected, LAMBDA x : x # shape)
    ELSE selected \o <<shape>>

\* the hit test reported the body of a shape
BodyHit(status) == status[2] # None /\ status[3] = None

\* C6: in select mode with no drag in progress, a press and release with
\* Shift held on the body of shape s toggles s in selected_shapes: the
\* press appends s at the end or removes it, the other selected shapes keep
\* their order, and the release leaves the selection as the press made it.
C6_ShiftClickToggles ==
    [][/\ (/\ call'.op = "on_mouse_press"
           /\ call'.arg[2]
           /\ layer._mode = "select"
           /\ ~layer._is_moving /\ ~layer._is_selecting
           /\ layer'.exc = NoExc
           /\ BodyHit(layer'.status))
          => layer'._selected_shapes = Toggle(layer._selected_shapes, layer'.status[2])
       /\ (ClickReleased(TRUE) /\ layer._mode = "select" /\ BodyHit(layer.status))
          => /\ layer'.exc = NoExc
             /\ layer'._selected_shapes = layer._selected_shapes]_vars

\* a click with Shift on shape 0 has removed it from a selection of two
C6_Witness ==
    /\ call.op = "on_mouse_release"
    /\ call.arg = <<PointO, TRUE, <<PointO, TRUE>> >>
    /\ layer._mode = "select"
    /\ layer.exc = NoExc
    /\ layer._z_order = <<0, 1>>
    /\ layer.status = <<"coord", 0, None>>
    /\ layer._selected_shapes = <<1>>

\* the step is a move that runs the hit test at the pointer and reports its
\* result in the status message
HoverStep ==
    /\ call'.op = "on_mouse_move"
    /\ \/ layer._mode = "pan/zoom"
       \/ /\ layer._mode \in {"select", "direct"}
          /\ ~call'.arg[2]
          /\ ~layer._is_moving /\ ~layer._is_selecting

\* the pointer is within the tolerance of no handle that the hit test looks at
NoHandleAt(s, coord) ==
    \/ s._selected_shapes = <<>>
    \/ s._mode \notin {"select", "direct"}
    \/ s._mode = "select" /\ s.selected_box # NoneArr /\ box_matches(s, coord) = {}
    \/ s._mode = "direct" /\ vertex_matches(s, coord) = <<>>

\* twice the signed area of the triangle a, b, p
Cross(a, b, p) == (b[1] - a[1]) * (p[2] - a[2]) - (b[2] - a[2]) * (p[1] - a[1])

StrictlyInside(t, p) ==
    \/ Cross(t[1], t[2], p) > 0 /\ Cross(t[2], t[3], p) > 0 /\ Cross(t[3], t[1], p) > 0
    \/ Cross(t[1], t[2], p) < 0 /\ Cross(t[2], t[3], p) < 0 /\ Cross(t[3], t[1], p) < 0

StrictlyOutside(t, p) ==
    /\ Cross(t[1], t[2], p) > 0 \/ Cross(t[2], t[3], p) > 0 \/ Cross(t[3], t[1], p) > 0
    /\ Cross(t[1], t[2], p) < 0 \/ Cross(t[2], t[3], p) < 0 \/ Cross(t[3], t[1], p) < 0

\* the mesh faces that are not hidden
VisibleFaces(s) ==
    {k \in DOMAIN s._mesh_faces_index \cap DOMAIN s._show_meshes : s._show_meshes[k]}

\* the visible shapes with a mesh triangle that has p strictly inside
ShapesUnder(s, p) ==
    {s._mesh_faces_index[k][1] :
        k \in {f \in VisibleFaces(s) : StrictlyInside(s._mesh_triangles[f], p)}}

\* the shape of S that comes first in z
Frontmost(z, S) ==
    z[CHOOSE k \in DOMAIN z : z[k] \in S /\ \A j \in 1..(k - 1) : z[j] \notin S]

\* C7: when the pointer matches no handle and lies strictly inside mesh
\* triangles of one or more visible shapes, the hit test returns [s, None]
\* where s is the one of those shapes that is earliest in z_order.
C7_FrontmostShapeHit ==
    [][(/\ HoverStep
        /\ NoHandleAt(layer, call'.arg[1])
        /\ ShapesUnder(layer, call'.arg[1]) # {})
         => /\ layer'.exc = NoExc
            /\ layer'.status =
                 <<"coord", Frontmost(layer._z_order, ShapesUnder(layer, call'.arg[1])), None>>]_vars

\* C8: the hit test returns [None, None] for every point outside all
\* visible mesh triangles and outside all handle tolerances, also when
\* shapes have been hidden with hide_shapes; a shape it reports has a
\* visible mesh triangle at the point.
C8_HiddenShapesNotHit ==
    [][(HoverStep /\ NoHandleAt(layer, call'.arg[1]))
         => /\ layer'.exc = NoExc
            /\ (\A k \in VisibleFaces(layer) :
                    StrictlyOutside(layer._mesh_triangles[k], call'.arg[1]))
                 => layer'.status = <<"coord", None, None>>
            /\ layer'.status[2] # None
                 => \E k \in VisibleFaces(layer) :
                       /\ layer._mesh_faces_index[k][1] = layer'.status[2]
                       /\ ~StrictlyOutside(layer._mesh_triangles[k], call'.arg[1])]_vars

\* p lies in the rectangle spanned by the two points of box
InMarquee(p, box) ==
    /\ Min2(box[1][1], box[2][1]) <= p[1] /\ p[1] <= Max2(box[1][1], box[2][1])
    /\ Min2(box[1][2], box[2][2]) <= p[2] /\ p[2] <= Max2(box[1][2], box[2][2])

\* the visible shapes with a corner of a mesh triangle in the marquee
ShapesInMarquee(s, box) ==
    {s._mesh_faces_index[k][1] :
        k \in {f \in VisibleFaces(s) :
                  \E i \in 1..3 : InMarquee(s._mesh_triangles[f][i], box)}}

\* C9: when a drag that started with no shape selected is released in
\* select or direct mode, selected_shapes becomes the ascending list of
\* exactly the visible shapes with a mesh-triangle vertex inside the
\* marquee; a shape with no mesh vertex inside it is not selected.
C9_MarqueeSelectsShapesInside ==
    [][(/\ call'.op = "on_mouse_release"
        /\ layer._mode \in {"select", "direct"}
        /\ layer._is_selecting
        /\ layer._drag_box # NoneArr
        /\ layer'.exc = NoExc)
         => layer'._selected_shapes
              = sorted_set(ShapesInMarquee(layer, layer._drag_box))]_vars

\* C10: assigning the mode property a string other than 'select',
\* 'direct', 'pan/zoom' or 'add_rectangle' raises ValueError, emits no mode
\* event and leaves mode, selected_shapes, the cached selected box, cursor
\* and the interactive flag unchanged; mode is one of the four values in
\* every reachable state.
C10_UnknownModeRejected ==
    [][/\ layer._mode \in {"select", "direct", "pan/zoom", "add_rectangle"}
       /\ layer'._mode \in {"select", "direct", "pan/zoom", "add_rectangle"}
       /\ (/\ call'.op = "mode"
           /\ call'.arg \notin {"select", "direct", "pan/zoom", "add_rectangle"})
          => /\ layer'.exc = "ValueError"
             /\ layer'.emitted = <<>>
             /\ layer'._mode = layer._mode
             /\ layer'._selected_shapes = layer._selected_shapes
             /\ layer'.selected_box = layer.selected_box
             /\ layer'.cursor = layer.cursor
             /\ layer'.interactive = layer.interactive]_vars

\* an unknown mode was rejected while a shape was selected
C10_Witness ==
    /\ call.op = "mode"
    /\ call.arg \notin Modes
    /\ layer.exc = "ValueError"
    /\ layer._mode = "select"
    /\ layer._selected_shapes # <<>>
    /\ layer.selected_box # NoneArr

(***************************************************************************)
(* Properties of the key events (specification SpecKeys)                   *)
(***************************************************************************)
\* C11: for every mode m, a non-auto-repeat press of the space key switches
\* the mode to pan/zoom, and the next release of the space key switches the
\* mode back to m, whatever mouse events or presses of the letter keys r,
\* d, s, z occur between that press and that release.
C11_SpaceIsMomentary ==
    [][/\ (call'.op = "on_key_press" /\ call'.arg = <<" ", FALSE>>)
          => layer'._mode = "pan/zoom"
       /\ (call'.op = "on_key_release" /\ call'.arg[1] = " ")
          => layer'._mode = call'.arg[2]]_vars

(***************************************************************************)
(* Properties of the mode property (specification SpecMode)                *)
(***************************************************************************)
\* C12: switching the mode from select to direct or from direct to select
\* leaves selected_shapes unchanged (select to direct clears the cached
\* selected box, direct to select recomputes it from selected_shapes);
\* every other change of mode empties selected_shapes and clears the box.
C12_ModeChangeSelection ==
    [][(call'.op = "mode" /\ layer'._mode # layer._mode)
         => IF layer._mode = "select" /\ layer'._mode = "direct"
            THEN /\ layer'._selected_shapes = layer._selected_shapes
                 /\ layer'.selected_box = NoneArr
            ELSE IF layer._mode = "direct" /\ layer'._mode = "select"
            THEN /\ layer'._selected_shapes = layer._selected_shapes
                 /\ layer'.selected_box
                      = select_box(layer, layer._selected_shapes).selected_box
            ELSE /\ layer'._selected_shapes = <<>>
                 /\ layer'.selected_box = NoneArr]_vars

\* the mode went from direct to select with a shape selected
C12_Witness ==
    /\ call.op = "mode"
    /\ call.arg = "select"
    /\ layer.emitted = <<"select">>
    /\ layer._selected_shapes # <<>>
    /\ layer.selected_box # NoneArr

(***************************************************************************)
(* Properties of the pointer events by mode (specification SpecMouse)      *)
(***************************************************************************)
PointerOps == {"on_mouse_press", "on_mouse_move", "on_mouse_release"}

\* C13: while the mode is pan/zoom, mouse press, move and release events
\* never change the shape collection (count, vertices, kinds, z_order) or
\* selected_shapes.
C13_PanZoomPassive ==
    [][(layer._mode = "pan/zoom" /\ call'.op \in PointerOps)
         => /\ layer'.id = layer.id
            /\ layer'.vertices = layer.vertices
            /\ layer'._z_order = layer._z_order
            /\ layer'._selected_shapes = layer._selected_shapes
            /\ layer'._mode = "pan/zoom"]_vars

\* a click on a shape in pan/zoom mode has selected nothing
C13_Witness ==
    /\ call.op = "on_mouse_release"
    /\ call.arg = <<PointO, FALSE, <<PointO, FALSE>> >>
    /\ layer._mode = "pan/zoom"
    /\ count(layer) = 2
    /\ layer._selected_shapes = <<>>

(***************************************************************************)
(* Properties of add_rectangle mode (specification SpecCreate)             *)
(***************************************************************************)
\* C14: in add_rectangle mode a rectangle is instantiated only by a
\* click-drag: a shape is added only by a mouse move while the button
\* pressed in add_rectangle mode is still held, one shape at a time; a
\* press and release with no move in between adds nothing; after the
\* release selected_shapes is empty and the ready-to-create and creating
\* flags are both false.
C14_RectangleOnlyByClickDrag ==
    [][/\ count(layer') # count(layer)
          => /\ call'.op = "on_mouse_move"
             /\ button = "down"
             /\ layer._mode = "add_rectangle"
             /\ count(layer') = count(layer) + 1
       /\ (call'.op = "on_mouse_release" /\ layer._mode = "add_rectangle")
          => /\ layer'._selected_shapes = <<>>
             /\ ~layer'._ready_to_create
             /\ ~layer'._creating]_vars

(***************************************************************************)
(* Properties of the faces handed to the mesh visual (specification        *)
(* SpecView)                                                               *)
(***************************************************************************)
\* the plane a shape is stored at: its coordinate on the non-displayed axis
plane_of(s, i) == At(s.vertices, i)[1][3]

\* the rows of the mesh buffers that belong to shape i
RowsOf(s, i) == {k \in 0..(Len(s._mesh_faces_index) - 1) : At(s._mesh_faces_index, k)[1] = i}

\* shape i is handed to the mesh visual: one of its faces is in the face list
Handed(s, i) == RowsOf(s, i) \cap Range(s.node_faces) # {}

\* shape i has a face that is not hidden
SomeShown(s, i) == \E k \in RowsOf(s, i) : At(s._show_meshes, k)

\* C15: after the layer is sliced at the viewer's indices, a shape that is
\* not hidden is handed to the renderer iff the plane it is stored at equals
\* the slice index of the non-displayed axis.
C15_ShownIffOnSlice ==
    (call.op = "_set_view_slice" /\ layer.exc = NoExc)
        => \A i \in 0..(count(layer) - 1) :
              SomeShown(layer, i) => (Handed(layer, i) <=> plane_of(layer, i) = call.arg)

(***************************************************************************)
(* Properties of the Rectangles and Box layers (specification SpecBoxes)   *)
(***************************************************************************)
\* both stored corners of the box lie on the slice: their coordinates on
\* the axes 2 and up equal the entries of indices
InSlice(box, indices) ==
    \A c \in 1..2 : \A a \in 3..Len(indices) : box[c][a] = indices[a]

\* the point lies inside the box on the displayed axes
Encloses(box, p) ==
    /\ Min2(box[1][1], box[2][1]) <= p[1] /\ p[1] <= Max2(box[1][1], box[2][1])
    /\ Min2(box[1][2], box[2][2]) <= p[2] /\ p[2] <= Max2(box[1][2], box[2][2])

\* the point lies inside the box grown by half the vertex size
Touches(box, p, size) ==
    /\ 2 * Min2(box[1][1], box[2][1]) - size <= 2 * p[1]
    /\ 2 * p[1] <= 2 * Max2(box[1][1], box[2][1]) + size
    /\ 2 * Min2(box[1][2], box[2][2]) - size <= 2 * p[2]
    /\ 2 * p[2] <= 2 * Max2(box[1][2], box[2][2]) + size

BoxesInSlice(s) == SelectSeq(s.coords, LAMBDA b : InSlice(b, s.indices))

\* C16: the visual is given exactly the boxes whose two corners lie on the
\* current slice, in the order of the coordinate array; a hit test returns a
\* box only if that box lies on the slice of the point and the point touches
\* it, returns one whenever a box of the slice encloses the point, and the
\* index it returns is the index of the box in the full coordinate array.
C16_BoxesOnSlice ==
    /\ call.op # "__init__"
          => /\ Len(layer.node_data) = Len(BoxesInSlice(layer))
             /\ \A j \in DOMAIN layer.node_data :
                    LET b == BoxesInSlice(layer)[j]
                    IN /\ layer.node_data[j][1]
                            = <<2 * Min2(b[1][1], b[2][1]) + 1, 2 * Min2(b[1][2], b[2][2]) + 1>>
                       /\ layer.node_data[j][br_of(layer.cls) + 1]
                            = <<2 * Max2(b[1][1], b[2][1]) + 1, 2 * Max2(b[1][2], b[2][2]) + 1>>
    /\ call.op = "get_value"
          => /\ layer.value # NoneArr
                  => /\ layer.value[1] \in 0..(Len(layer.coords) - 1)
                     /\ InSlice(At(layer.coords, layer.value[1]), call.arg)
                     /\ Touches(At(layer.coords, layer.value[1]), call.arg, layer.size)
             /\ (\E k \in DOMAIN layer.coords :
                    InSlice(layer.coords[k], call.arg) /\ Encloses(layer.coords[k], call.arg))
                  => layer.value # NoneArr

C16_Witness ==
    /\ call.op = "get_value"
    /\ Len(layer.coords) = 2
    /\ ~InSlice(layer.coords[1], call.arg)
    /\ InSlice(layer.coords[2], call.arg)
    /\ layer.value = <<1, None>>
    /\ Len(layer.node_data) = 1

(***************************************************************************)
(* Properties of the cached selection box (specification SpecSelect)       *)
(***************************************************************************)
\* C17: whenever a handler or public method that changes selected_shapes
\* returns while the mode is select, the cached selected box is the one
\* computed from the new selected_shapes (None exactly when it is empty).
C17_BoxFollowsSelection ==
    [][(/\ layer'._selected_shapes # layer._selected_shapes
        /\ layer'._mode = "select"
        /\ layer'.exc = NoExc)
          => layer'.selected_box = select_box(layer', layer'._selected_shapes).selected_box]_vars

(***************************************************************************)
(* Properties of edit_shape (specification Spec)                           *)
(***************************************************************************)
\* C18: edit_shape on an ellipse raises nothing and leaves the whole layer
\* as it was: vertices and kinds, mesh buffers, visibility and color
\* arrays, face counts and z_order.
C18_EllipseEditIgnored ==
    [][(call'.op = "edit_shape" /\ object_type_of(layer, call'.arg) = "ellipse")
          => layer' = Begin(layer)]_vars

C18_Witness ==
    /\ call.op = "edit_shape"
    /\ count(layer) = 2
    /\ object_type_of(layer, call.arg) = "ellipse"
    /\ layer.exc = NoExc
    /\ layer._mesh_faces_index # <<>>

\* C19: edit_shape on a rectangle makes shape i a polygon and keeps its
\* index, the shape count and z_order; editing a line, path or polygon
\* keeps its kind; no edit_shape call turns a shape that is not a rectangle
\* into a rectangle, so a promoted shape never becomes a rectangle again.
C19_RectanglePromotedOnce ==
    [][call'.op = "edit_shape"
          => /\ count(layer') = count(layer)
             /\ layer'._z_order = layer._z_order
             /\ object_type_of(layer', call'.arg)
                  = IF object_type_of(layer, call'.arg) = "rectangle" THEN "polygon"
                    ELSE object_type_of(layer, call'.arg)
             /\ \A i \in 0..(count(layer) - 1) :
                    /\ i # call'.arg => At(layer'.id, i) = At(layer.id, i)
                    /\ object_type_of(layer, i) # "rectangle"
                          => object_type_of(layer', i) # "rectangle"]_vars

C19_Witness ==
    /\ call.op = "edit_shape"
    /\ count(layer) = 2
    /\ object_type_of(layer, call.arg) = "polygon"
    /\ At(layer.vertices, call.arg) = TriangleE
    /\ object_type_of(layer, 1 - call.arg) = "rectangle"
    /\ layer._z_order = <<1, 0>>
    /\ layer.exc = NoExc

\* the shape and the role (0 fill, 1 border) of the face in row k
TagOf(s, k) == At(s._mesh_faces_index, k)[1]
RoleOf(s, k) == At(s._mesh_faces_index, k)[3]

\* the face in row k is visible: hide_shapes has not hidden its role of its
\* shape, or show_shapes has shown it again
Visible(s, k) == At(s.show_objects, TagOf(s, k))[RoleOf(s, k) + 1]

\* the position of shape i in z_order
ZPos(s, i) == list_index(s._z_order, i)

\* C20: after every call that refreshes the layer, the face list handed to
\* the renderer holds each visible face exactly once and no other, grouped
\* shape by shape in z_order, every face is a row of the mesh buffers, and
\* the color array has one row per face, the face color of the shape for a
\* fill face and its edge color for a border face.
C20_RendererFacesConsistent ==
    (call.op # "__init__" /\ layer.exc = NoExc)
        => LET f == layer.node_faces
               rows == 0..(Len(layer._mesh_faces_index) - 1)
           IN /\ Range(f) \subseteq rows
              /\ Len(layer._mesh_triangles) = Len(layer._mesh_faces_index)
              /\ \A j, k \in DOMAIN f : j # k => f[j] # f[k]
              /\ Range(f) = {r \in rows : Visible(layer, r)}
              /\ \A j, k \in DOMAIN f :
                    j < k => ZPos(layer, TagOf(layer, f[j])) <= ZPos(layer, TagOf(layer, f[k]))
              /\ Len(layer.node_colors) = Len(f)
              /\ \A j \in DOMAIN f :
                    layer.node_colors[j]
                      = IF RoleOf(layer, f[j]) = 0
                        THEN At(layer._face_color_array, TagOf(layer, f[j]))
                        ELSE At(layer._edge_color_array, TagOf(layer, f[j]))

(***************************************************************************)
(* Properties of the Rectangles layer (specification SpecRect)             *)
(***************************************************************************)
\* C21: every box the Rectangles layer stores by a drag-create or by a
\* handle resize has non-zero width and non-zero height.
C21_BoxesNeverDegenerate ==
    \A k \in DOMAIN layer.coords : NonDegenerate(layer.coords[k])

(***************************************************************************)
(* Properties of Dims (specification SpecDims)                             *)
(***************************************************************************)
\* the axes Python accepts as an index of a list of ndim items
ValidAxis(d, axis) == axis < Dims_ndim(d) /\ axis >= 0 - Dims_ndim(d)

AxisSetters == {"set_range", "set_point", "set_interval", "set_mode", "set_axis_label"}

\* C22: set_axis_label(axis, label) with a valid axis stores str(label) as
\* the label of that axis, leaves the other labels alone, and emits an
\* axis_labels event iff the stored label changed.
C22_SetAxisLabelStores ==
    [][(call'.op = "set_axis_label" /\ ValidAxis(layer, call'.arg[1])) =>
          /\ call'.exc = NoExc
          /\ layer'._axis_labels =
                [layer._axis_labels EXCEPT ![(call'.arg[1] % Dims_ndim(layer)) + 1] =
                                              py_str(call'.arg[2])]
          /\ (call'.events # <<>>) <=> (layer'._axis_labels # layer._axis_labels)]_vars

\* C23: a setter called with an axis that is not one of the existing axes
\* raises ValueError, changes nothing and emits nothing.
C23_AxisOutOfRangeRejected ==
    [][(call'.op \in AxisSetters /\ ~ValidAxis(layer, call'.arg[1])) =>
          /\ call'.exc = "ValueError"
          /\ layer' = layer
          /\ call'.events = <<>>]_vars

\* C30: assigning ndim a larger value emits one ndim event and then one
\* axis event per new axis; a smaller value emits just one ndim event; the
\* current value emits nothing.
C30_NdimEvents ==
    [][call'.op = "ndim" =>
          LET old == Dims_ndim(layer)
              new == call'.arg[1]
              ev == call'.events
          IN IF new = old THEN ev = <<>>
             ELSE /\ Len(ev) = (IF new > old THEN 1 + (new - old) ELSE 1)
                  /\ ev[1].name = "ndim"
                  /\ \A k \in 2..Len(ev) : ev[k].name = "axis"]_vars

(***************************************************************************)
(* Properties of reading and writing with plugins (specification           *)
(* SpecPlugins)                                                            *)
(***************************************************************************)
\* the implementations that offer a function, in hook order
Offering(impls) == SelectSeq([k \in DOMAIN impls |-> k], LAMBDA k : impls[k].offers)

\* the calls made so far are the first offered functions, each once, in
\* hook order, and all but possibly the last of them raised
TriedInOrder(s) ==
    /\ Len(s.calls) <= Len(Offering(s.impls))
    /\ s.calls = SubSeq(Offering(s.impls), 1, Len(s.calls))
    /\ \A k \in 1..(Len(s.calls) - 1) : s.impls[s.calls[k]].outcome = "raises"

\* the calls that raised, as the plugin names of their implementations
Failed(s) ==
    LET bad == SelectSeq(s.calls, LAMBDA k : s.impls[k].outcome = "raises")
    IN [k \in DOMAIN bad |-> s.impls[bad[k]].plugin_name]

\* the value returned: that of the last call if it did not raise, None when
\* every offered function was called and raised
ReturnedFirstSuccess(s) ==
    s.pc = "done" =>
        IF s.calls # <<>> /\ s.impls[s.calls[Len(s.calls)]].outcome # "raises"
        THEN s.result = returned(s.impls, s.calls[Len(s.calls)])
        ELSE s.result = <<"None">> /\ Len(s.calls) = Len(Offering(s.impls))

C25_WriterCalls ==
    (layer.fn = "write" /\ layer.pc = "done") =>
        IF layer.plugin_name = "None"
        THEN TriedInOrder(layer) /\ ReturnedFirstSuccess(layer)
        ELSE \A k \in DOMAIN layer.impls :
                (layer.impls[k].plugin_name = layer.plugin_name /\ layer.impls[k].offers)
                    => layer.calls = <<k>>

(***************************************************************************)
(* Properties of the drag state (specifications SpecMode and SpecDrag)     *)
(***************************************************************************)
ModeOps == {"mode", "on_key_press", "on_key_release"}

\* C26: every change of mode, by assignment or by a key, leaves
\* selected_vertex = [None, None], drag_start = None, fixed_vertex = None,
\* is_moving = False and is_selecting = False.
C26_ModeChangeClearsDrag ==
    [][(call'.op \in ModeOps /\ layer'._mode # layer._mode)
         => /\ layer'._selected_vertex = NonePair
            /\ layer'._drag_start = NoneArr
            /\ layer'._fixed_vertex = NoneArr
            /\ ~layer'._is_moving
            /\ ~layer'._is_selecting]_vars

\* C27: after every mouse release, in whatever mode it arrives, drag_start
\* and fixed_vertex are None and is_moving and is_selecting are False.
C27_ReleaseClearsDrag ==
    [][call'.op = "on_mouse_release"
         => /\ layer'._drag_start = NoneArr
            /\ layer'._fixed_vertex = NoneArr
            /\ ~layer'._is_moving
            /\ ~layer'._is_selecting]_vars

(***************************************************************************)
(* Properties of the hit test (specification SpecHit)                      *)
(***************************************************************************)
\* the handles of the selected box within vertex_size/2 of coord on both
\* axes: 0..7 the corners and edge midpoints, 8 the rotation handle
HandlesAt(s, coord) ==
    {h \in 0..8 :
        LET p == s.selected_box[IF h = 8 THEN 10 ELSE h + 1]
        IN /\ 2 * abs(p[1] - coord[1]) <= s._vertex_size
           /\ 2 * abs(p[2] - coord[2]) <= s._vertex_size}

\* C28: in select mode with a non-empty selection, a press within
\* vertex_size/2 of a handle of the selected box hits
\* [selected_shapes[0], h] with h the highest such handle, also when the
\* pointer is inside the mesh of another shape.
C28_HandleHitFirst ==
    [][(/\ call'.op = "on_mouse_press"
        /\ layer._mode = "select"
        /\ layer._selected_shapes # <<>>
        /\ layer.selected_box # NoneArr
        /\ ~layer._is_moving /\ ~layer._is_selecting
        /\ HandlesAt(layer, call'.arg[1]) # {})
         => /\ layer'.exc = NoExc
            /\ layer'._selected_vertex =
                  <<layer._selected_shapes[1],
                    CHOOSE h \in HandlesAt(layer, call'.arg[1]) :
                        \A j \in HandlesAt(layer, call'.arg[1]) : j <= h>>]_vars

\* RectS is selected and the press, inside RectB and within reach of all
\* eight handles of the box of RectS, hit its handle 7
C28_Witness ==
    /\ call.op = "on_mouse_press"
    /\ call.arg[1] = HitAll
    /\ layer._selected_shapes = <<1>>
    /\ layer._selected_vertex = <<1, 7>>


\* a handle v < 8 of the selected box is being dragged in select mode
ResizeDrag ==
    /\ button = "down" /\ layer._mode = "select" /\ Len(layer._selected_shapes) > 0
    /\ layer._selected_vertex[2] \in 0..7

\* C29: during a resize drag of handle v (0 <= v < 8) in select mode the
\* first move of the drag anchors the scaling at handle (v + 4) mod 8 of the
\* selected box as it is before that move; later moves and Shift presses and
\* releases of the drag leave the anchor as it is; every scaling is applied
\* about the anchor with a scale that is not zero on either axis; and the
\* release clears the anchor
C29_ResizeAnchoredOpposite ==
    [][/\ (ResizeDrag /\ layer._fixed_vertex = NoneArr /\ call'.op = "on_mouse_move")
           => /\ layer'._fixed_index = (layer._selected_vertex[2] + 4) % 8
              /\ layer'._fixed_vertex = At(layer.selected_box, (layer._selected_vertex[2] + 4) % 8)
       /\ (ResizeDrag /\ layer._fixed_vertex # NoneArr
            /\ call'.op \in {"on_mouse_move", "on_key_press", "on_key_release"})
           => /\ layer'._fixed_index = layer._fixed_index
              /\ layer'._fixed_vertex = layer._fixed_vertex
       /\ (ResizeDrag /\ layer'.scaled # NoneArr)
           => /\ layer'.scaled[1] = layer'._fixed_vertex
              /\ layer'.scaled[2][1][1] # 0 /\ layer'.scaled[2][2][1] # 0
       /\ (ResizeDrag /\ call'.op = "on_mouse_release")
           => layer'._fixed_vertex = NoneArr]_vars

\* the top handle was dragged, the box has followed the pointer and a Shift
\* release has repeated the move: the anchor is still the bottom handle of
\* the box of RectA
C29_Witness ==
    /\ ResizeDrag /\ layer._selected_vertex[2] = 1
    /\ call.op = "on_key_release" /\ layer.scaled # NoneArr
    /\ layer._fixed_vertex = <<20, 40>>
    /\ At(layer.selected_box, 0) # <<0, 0>>

\* a move of a resize drag at the height of the anchor: the scale of that
\* axis is 1 and the shapes keep their extent
C29_WitnessZero ==
    /\ ResizeDrag /\ call.op = "on_mouse_move" /\ layer.scaled # NoneArr
    /\ layer._mouse_coord[2] = layer._fixed_vertex[2]
    /\ layer.scaled[2][2] = <<1, 1>>


\* the entries of a that are at least k, each lowered by k
RECURSIVE retained(_, _)
retained(a, k) ==
    IF a = <<>> THEN <<>>
    ELSE IF Head(a) >= k THEN <<Head(a) - k>> \o retained(Tail(a), k)
    ELSE retained(Tail(a), k)

OrderIsPermutation ==
    /\ Len(layer._order) = Dims_ndim(layer)
    /\ Range(layer._order) = 0..(Dims_ndim(layer) - 1)

\* C31: after any sequence of ndim assignments, _roll and _transpose calls
\* order is a permutation of 0..ndim-1, and an assignment that shrinks ndim
\* leaves the retained dimensions (the axes whose range, point, interval and
\* mode are kept, renumbered from 0) in the display order they had
C31_OrderKept ==
    [][/\ OrderIsPermutation'
       /\ (call'.op = "ndim" /\ Dims_ndim(layer') < Dims_ndim(layer))
           => layer'._order = retained(layer._order, Dims_ndim(layer) - Dims_ndim(layer'))]_vars

\* the first part of C31 alone: order is a permutation of 0..ndim-1
C31_OrderIsPermutation == OrderIsPermutation


\* C32: after any sequence of add_shapes, remove_shapes, edit_shape,
\* hide_shapes and show_shapes calls the per-face arrays have one entry per
\* row of mesh_faces_index, the per-shape arrays have one entry per shape and
\* _face_counts[i] is the number of mesh faces tagged with shape i
C32_ArraysFollowMesh ==
    /\ Len(layer._show_meshes) = Len(layer._mesh_faces_index)
    /\ Len(layer._mesh_color_array) = Len(layer._mesh_faces_index)
    /\ Len(layer._face_color_array) = count(layer)
    /\ Len(layer._edge_color_array) = count(layer)
    /\ Len(layer.show_objects) = count(layer)
    /\ Len(layer._face_counts) = count(layer)
    /\ Len(layer._z_order) = count(layer)
    /\ \A i \in 0..(count(layer) - 1) :
          At(layer._face_counts, i) =
              Cardinality({k \in DOMAIN layer._mesh_faces_index : layer._mesh_faces_index[k][1] = i})

\* an edit_shape has left two shapes with different numbers of faces, some
\* of them hidden
C32_Witness ==
    /\ count(layer) = 2 /\ call.op = "edit_shape"
    /\ At(layer._face_counts, 0) # At(layer._face_counts, 1)
    /\ \E k \in DOMAIN layer._show_meshes : ~layer._show_meshes[k]


\* C33: after any sequence of hide_shapes, show_shapes and edit_shape calls a
\* face is shown iff the show_objects flag of its shape and its role (fill,
\* border) is True; in particular a hidden shape stays hidden when it is
\* edited
C33_HiddenStaysHidden ==
    (layer.exc = NoExc /\ Len(layer._show_meshes) = Len(layer._mesh_faces_index))
        => \A k \in DOMAIN layer._show_meshes : layer._show_meshes[k] = Visible(layer, k - 1)


\* C34: after any sequence of mouse events, key events, mode changes,
\* add_shapes and remove_shapes calls selected_shapes holds no index twice
\* and every entry is the index of an existing shape
C34_SelectionValid ==
    /\ \A j, k \in DOMAIN layer._selected_shapes :
          j # k => layer._selected_shapes[j] # layer._selected_shapes[k]
    /\ \A k \in DOMAIN layer._selected_shapes :
          layer._selected_shapes[k] \in 0..(count(layer) - 1)


\* both shapes are selected (the second was added by add_shapes and
\* shift-clicked), and the button is down
C34_Witness ==
    /\ count(layer) = 2 /\ Len(layer._selected_shapes) = 2
    /\ call.op = "on_mouse_press" /\ call.arg[2]

\* remove_shapes has emptied a selection of two shapes and left one shape
C34_WitnessRemoved ==
    /\ call.op = "remove_shapes" /\ count(layer) = 1 /\ layer._selected_shapes = <<>>
    /\ layer.selected_box # NoneArr


\* index i names in s1 the shape it names in s: a shape that exists in both
\* and has the same kind and vertices
SameShape(s, s1, i) ==
    /\ i \in 0..(count(s1) - 1) /\ i \in 0..(count(s) - 1)
    /\ At(s1.id, i) = At(s.id, i)
    /\ At(s1.vertices, i) = At(s.vertices, i)

\* C35: when remove_shapes has returned, hover_shapes[0] and
\* selected_vertex[0] are each None or the index of a shape that still exists
\* and is the shape the index named before the removal
C35_RemovalKeepsReferences ==
    [][(call'.op = "remove_shapes" /\ layer'.exc = NoExc)
        => /\ layer'._hover_shapes[1] = None
                \/ SameShape(layer, layer', layer'._hover_shapes[1])
           /\ layer'._selected_vertex[1] = None
                \/ SameShape(layer, layer', layer'._selected_vertex[1])]_vars


\* a stands before b in the order z
Before(z, a, b) == list_index(z, a) < list_index(z, b)

\* the shapes of the set group stand in z1 in the order they have in z
SameRelativeOrder(z, z1, group) ==
    \A a \in group, b \in group : Before(z, a, b) <=> Before(z1, a, b)

ListMoves == {"move_forward", "move_backward", "move_to_front", "move_to_back"}

\* a call of one of the four moves with a list has returned
ListMoved == call'.op \in ListMoves /\ call'.arg.type = "list" /\ layer'.exc = NoExc

\* C36: a move of a list of shapes keeps the z-order of the listed shapes
\* among themselves and of the unlisted shapes among themselves; move_to_front
\* leaves the listed shapes at the first positions and move_to_back at the last
C36_ListMoveKeepsRelativeOrder ==
    [][ListMoved =>
        LET listed == Range(call'.arg.val)
            others == Range(layer._z_order) \ listed
            z1 == layer'._z_order
            k == Cardinality(listed)
        IN /\ SameRelativeOrder(layer._z_order, z1, listed)
           /\ SameRelativeOrder(layer._z_order, z1, others)
           /\ call'.op = "move_to_front" => Range(SubSeq(z1, 1, k)) = listed
           /\ call'.op = "move_to_back"
                => Range(SubSeq(z1, Len(z1) - k + 1, Len(z1))) = listed]_vars

\* the part of C36 about move_to_front and move_to_back alone
C36_FrontBackPart ==
    [][(ListMoved /\ call'.op \in {"move_to_front", "move_to_back"}) =>
        LET listed == Range(call'.arg.val)
            others == Range(layer._z_order) \ listed
            z1 == layer'._z_order
            k == Cardinality(listed)
        IN /\ SameRelativeOrder(layer._z_order, z1, listed)
           /\ SameRelativeOrder(layer._z_order, z1, others)
           /\ call'.op = "move_to_front" => Range(SubSeq(z1, 1, k)) = listed
           /\ call'.op = "move_to_back"
                => Range(SubSeq(z1, Len(z1) - k + 1, Len(z1))) = listed]_vars


\* an add_shapes call has returned
Added == call'.op = "add_shapes" /\ layer'.exc = NoExc

\* C37: add_shapes gives the k new shapes the indices count..count+k-1 and
\* puts them first in z_order in ascending order; the existing shapes keep
\* their indices and their order behind them; every face of a new shape is
\* shown, whatever was hidden before
C37_AddShapesInFront ==
    [][Added =>
        LET n == count(layer)
            k == call'.arg
            z1 == layer'._z_order
        IN /\ count(layer') = n + k
           /\ SubSeq(z1, 1, k) = arange(n, n + k)
           /\ SubSeq(z1, k + 1, Len(z1)) = layer._z_order
           /\ \A i \in 0..(n - 1) : SameShape(layer, layer', i)
           /\ SubSeq(layer'._mesh_faces_index, 1, Len(layer._mesh_faces_index))
                = layer._mesh_faces_index
           /\ Len(layer'._show_meshes) = Len(layer'._mesh_faces_index)
           /\ \A f \in 0..(Len(layer'._mesh_faces_index) - 1) :
                 /\ TagOf(layer', f) < n + k
                 /\ TagOf(layer', f) >= n
                      => At(layer'._show_meshes, f) /\ Visible(layer', f)]_vars

\* a shape has been added in front of a shape that is hidden
C37_Witness ==
    /\ call.op = "add_shapes" /\ layer.exc = NoExc /\ count(layer) = 2
    /\ layer._z_order = <<1, 0>>
    /\ \E f \in 0..(Len(layer._mesh_faces_index) - 1) :
          TagOf(layer, f) = 0 /\ ~At(layer._show_meshes, f)
    /\ \E f \in 0..(Len(layer._mesh_faces_index) - 1) :
          TagOf(layer, f) = 1 /\ At(layer._show_meshes, f)

====
